---- MODULE Spec2Model ----
(***************************************************************************)
(* The document transformation core of the PDF tool: page-range parsing,   *)
(* split page selection, merge, the size-targeted compression search and   *)
(* the page order / rotation / selection model of the thumbnail view.      *)
(*                                                                         *)
(* Every component has its own variables and its own specification:        *)
(*   Spec          the thumbnail view (PageThumbnailView)                  *)
(*   SpecParse     parse_page_ranges / PDFToolApp._parse_page_ranges       *)
(*   SpecSplit     split_pdf                                               *)
(*   SpecMerge     merge_pdfs                                              *)
(*   SpecCompress  compress_pdfs / compress_pdf_auto                       *)
(*   SpecProtect   the password tab, set_pdf_password, remove_pdf_password *)
(*   SpecOrder     the thumbnail view with the last operation remembered   *)
(*   SpecRotate    SpecOrder with the rotate buttons and the export        *)
(*   SpecBatch     the worker threads of the password, compress, merge tabs*)
(*   SpecBatchFair SpecBatch with fair worker threads and event loop       *)
(*   SpecReorder   reorder_pdf with any order list                         *)
(*   SpecDest      the destination paths of a batch                        *)
(* A specification leaves the other components' variables at their idle    *)
(* values.                                                                 *)
(***************************************************************************)
EXTENDS Integers, Sequences, FiniteSets, TLC

VARIABLES
    \* PageThumbnailView
    doc,             \* NoDoc, or <<page count>> of the open document
    page_items,      \* display order: sequence of original page indices
    selected_pages,  \* set of original page indices
    page_rotations,  \* original page index -> angle
    dragging,        \* NoDrag, or (frame, idx): the page pressed and its position
    \* parse_page_ranges
    p_text, p_total, p_pc, p_result, p_legacy,
    \* split_pdf
    s_doc, s_mode, s_targets, s_pc, s_result, s_out,
    \* merge_pdfs
    m_inputs, m_cb, m_pc, m_i, m_writer, m_opened, m_progress, m_out, m_error,
    \* compress_pdfs
    c_n,         \* len(sources)
    c_nout,      \* len(out_paths)
    c_level,     \* level
    c_target,    \* NoTarget, or <<target size>>
    c_pc,        \* where compress_pdfs stands
    c_i,         \* files completed
    c_start,     \* start_idx
    c_src,       \* the current source exists
    c_gs,        \* rung -> size Ghostscript makes of the current source
    c_cur,       \* cur_idx
    c_used,      \* used_setting, as a rung index
    c_calls,     \* rungs compress_one_pdf was invoked with for the current file
    c_out,       \* the current out_path: <<>>, or <<[rung, size]>> last written
    c_results,   \* results
    c_progress,  \* the values handed to progress_cb
    c_error,     \* the exception compress_pdfs raised
    \* the password tab: execute_password, set_pdf_password, remove_pdf_password
    pw_files,    \* app.password_files: the source documents
    pw_op,       \* app.password_operation_mode: "set" or "remove"
    pw_mode,     \* app.password_protection_mode: "view" or "restrict"
    pw_entry,    \* the text of the password entry of that mode
    pw_fc,       \* app.forbid_copy
    pw_fp,       \* app.forbid_print
    pw_pc,       \* where the handler and its worker stand
    pw_args,     \* what the worker closes over: password and the three flags
    pw_i,        \* files the worker is done with
    pw_outs,     \* per file: its out_path, NoOut or the document written
    pw_failed,   \* failed: one entry per failed or skipped file
    pw_success,  \* success
    pw_progress, \* the values posted to app.progress_set
    pw_warning,  \* the warning the handler showed
    \* the last operation on the thumbnail view (SpecOrder)
    o_op,        \* its name
    o_target,    \* its position or angle argument, or -1
    o_before,    \* order, selection and rotations before it
    o_press,     \* the order at the press of the drag gesture under way
    o_inside,    \* every motion of that gesture aimed inside the block's span
    o_out,       \* the file it wrote, NoFile if it wrote none
    \* the tabs that run their work on a worker thread (SpecBatch)
    b_tab,       \* the tab shown: "password", "compress" or "merge"
    b_enabled,   \* the state set_actions_state gave app.action_buttons
    b_n,         \* files in the list of the compress or merge tab
    b_tasks,     \* the worker threads started that have not returned
    b_queue,     \* callbacks posted with app.after that have not run yet
    b_seen,      \* callbacks run and progress values set since progress_reset
    b_started,   \* files in the tab's list when the last batch was started
    b_direct,    \* what worker threads called on the UI themselves
    \* one call of reorder_pdf (SpecReorder)
    r_doc,       \* the source: readable, is_encrypted, pages
    r_order,     \* order
    r_rotations, \* rotations
    r_pc,        \* "idle", "ready", "done"
    r_status,    \* "ok" or the error the call raised
    r_out,       \* the file at out_path
    \* the destination paths of one batch (SpecDest)
    d_tab,       \* "password" or "compress"
    d_files,     \* the tab's file list
    d_pattern,   \* the name pattern entered, as tokens
    d_out_dir,   \* the output folder, None if none is set
    d_exists,    \* the paths at which a file exists
    d_pc,        \* "idle", "ready", "running", "done"
    d_i,         \* files the loop is done with
    d_out_paths  \* the out_path of each task handed to the engine so far

viewVars  == <<doc, page_items, selected_pages, page_rotations, dragging>>
parseVars == <<p_text, p_total, p_pc, p_result, p_legacy>>
splitVars == <<s_doc, s_mode, s_targets, s_pc, s_result, s_out>>
mergeVars == <<m_inputs, m_cb, m_pc, m_i, m_writer, m_opened, m_progress, m_out,
               m_error>>
compVars  == <<c_n, c_nout, c_level, c_target, c_pc, c_i, c_start, c_src, c_gs,
               c_cur, c_used, c_calls, c_out, c_results, c_progress, c_error>>
protectVars == <<pw_files, pw_op, pw_mode, pw_entry, pw_fc, pw_fp, pw_pc,
                 pw_args, pw_i, pw_outs, pw_failed, pw_success, pw_progress,
                 pw_warning>>
orderVars == <<o_op, o_target, o_before, o_press, o_inside, o_out>>
batchVars == <<b_tab, b_enabled, b_n, b_tasks, b_queue, b_seen, b_started,
               b_direct>>
reorderVars == <<r_doc, r_order, r_rotations, r_pc, r_status, r_out>>
destVars == <<d_tab, d_files, d_pattern, d_out_dir, d_exists, d_pc, d_i,
              d_out_paths>>
vars == <<viewVars, parseVars, splitVars, mergeVars, compVars, protectVars,
          orderVars, batchVars, reorderVars, destVars>>

(***************************************************************************)
(* Bounds of the model.                                                    *)
(***************************************************************************)
MaxPages == 3        \* pages of a document loaded into the thumbnail view
MaxTextLen == 5      \* characters of a page-spec string
MaxTotalPages == 2   \* total_pages handed to the parsers
MaxSplitPages == 3   \* pages of a document handed to split_pdf
MaxTargets == 3      \* length of split_pdf's target list
MaxSources == 3      \* length of merge_pdfs' input list
MaxSrcPages == 2     \* pages of one merge source
MaxFiles == 2        \* files of one compress_pdfs batch
MaxOrderPages == 4   \* pages of a document whose order is rearranged
MaxRotPages == 2     \* pages of a document that is rearranged, rotated, exported
MaxBatchFiles == 3   \* files in the list of a tab that runs a batch
MaxWorkers == 2      \* worker threads alive at a time
MaxPwFiles == 2      \* files in the password tab's list
MaxPwPages == 2      \* pages of a document in the password tab's list
TargetSize == 1      \* the target size of a size-targeted compression
LevelSlack == 1      \* how far outside 1..5 the level argument ranges

None == "None"

(***************************************************************************)
(* Generic helpers: Python's min/max, sorted(set), list comprehension.     *)
(***************************************************************************)
Min2(a, b) == IF a <= b THEN a ELSE b
Max2(a, b) == IF a >= b THEN a ELSE b

RECURSIVE sorted_desc(_)
\* mutant: descending
sorted_desc(S) ==
    IF S = {} THEN <<>>
    ELSE LET m == CHOOSE x \in S : \A y \in S : x >= y
         IN  <<m>> \o sorted_desc(S \ {m})

RECURSIVE sorted(_)
sorted(S) ==
    IF S = {} THEN <<>>
    ELSE LET m == CHOOSE x \in S : \A y \in S : x <= y
         IN  <<m>> \o sorted(S \ {m})

Range(s) == {s[i] : i \in 1..Len(s)}

RECURSIVE Filter(_, _)
\* [x for x in s if x in S]
Filter(s, S) ==
    IF s = <<>> THEN <<>>
    ELSE (IF Head(s) \in S THEN <<Head(s)>> ELSE <<>>) \o Filter(Tail(s), S)

RECURSIVE SeqsUpTo(_, _)
\* all sequences over S of length at most n
SeqsUpTo(S, n) ==
    IF n = 0 THEN {<<>>}
    ELSE LET shorter == SeqsUpTo(S, n - 1)
         IN  shorter \cup {Append(s, x) : s \in {t \in shorter : Len(t) = n - 1}, x \in S}

(***************************************************************************)
(* Python strings, as sequences of one-character strings.                  *)
(***************************************************************************)
Whitespace == {" "}
DigitChars == {"0", "1", "2", "3", "4", "5", "6", "7", "8", "9"}
DigitVal(c) ==
    CASE c = "0" -> 0 [] c = "1" -> 1 [] c = "2" -> 2 [] c = "3" -> 3
      [] c = "4" -> 4 [] c = "5" -> 5 [] c = "6" -> 6 [] c = "7" -> 7
      [] c = "8" -> 8 [] c = "9" -> 9

RECURSIVE lstrip(_)
lstrip(s) == IF s # <<>> /\ Head(s) \in Whitespace THEN lstrip(Tail(s)) ELSE s
RECURSIVE rstrip(_)
rstrip(s) ==
    IF s # <<>> /\ s[Len(s)] \in Whitespace
    THEN rstrip(SubSeq(s, 1, Len(s) - 1)) ELSE s
\* str.strip()
strip(s) == rstrip(lstrip(s))

\* position of the first occurrence of c in s, 0 when there is none
find(s, c) ==
    IF \E i \in 1..Len(s) : s[i] = c
    THEN CHOOSE i \in 1..Len(s) : s[i] = c /\ \A j \in 1..(i - 1) : s[j] # c
    ELSE 0

RECURSIVE split(_, _)
\* str.split(sep): always at least one piece
split(s, sep) ==
    LET k == find(s, sep)
    IN  IF k = 0 THEN <<s>>
        ELSE <<SubSeq(s, 1, k - 1)>> \o split(SubSeq(s, k + 1, Len(s)), sep)

\* str.split(sep, 1) of a string that contains sep
split_once(s, sep) ==
    LET k == find(s, sep)
    IN  <<SubSeq(s, 1, k - 1), SubSeq(s, k + 1, Len(s))>>

RECURSIVE decimal(_)
decimal(d) ==
    IF d = <<>> THEN 0
    ELSE 10 * decimal(SubSeq(d, 1, Len(d) - 1)) + DigitVal(d[Len(d)])

\* int(s): surrounding whitespace, an optional sign, then at least one digit;
\* anything else raises ValueError (ok = FALSE)
int(s) ==
    LET t   == strip(s)
        neg == t # <<>> /\ Head(t) = "-"
        d   == IF neg THEN Tail(t) ELSE t
    IN  IF d # <<>> /\ \A i \in 1..Len(d) : d[i] \in DigitChars
        THEN [ok |-> TRUE, val |-> IF neg THEN 0 - decimal(d) ELSE decimal(d)]
        ELSE [ok |-> FALSE, val |-> 0]

(***************************************************************************)
(* parse_page_ranges (src/services/pdf_split.py).  A result is             *)
(* [ok, err, val]: the sorted index list, or the ValueError raised, named  *)
(* by the kind of its message.                                             *)
(***************************************************************************)
Ok(v)    == [ok |-> TRUE, err |-> None, val |-> v]
Raise(e) == [ok |-> FALSE, err |-> e, val |-> <<>>]

RECURSIVE nonempty_parts(_)
\* [p.strip() for p in pieces if p.strip()]
nonempty_parts(pieces) ==
    IF pieces = <<>> THEN <<>>
    ELSE (IF strip(Head(pieces)) # <<>> THEN <<strip(Head(pieces))>> ELSE <<>>)
         \o nonempty_parts(Tail(pieces))

\* mutant: start > end tested before the bounds below 1
parse_range_part_order(part, total_pages) ==
    LET halves == split_once(part, "-")
        start  == int(strip(halves[1]))
        end    == int(strip(halves[2]))
    IN  IF ~start.ok \/ ~end.ok THEN Raise("Malformed")
        ELSE IF start.val > end.val THEN Raise("InvalidOrder")
        ELSE IF start.val < 1 \/ end.val < 1 THEN Raise("OutOfRange")
        ELSE IF end.val > total_pages THEN Raise("OutOfRange")
        ELSE Ok({n - 1 : n \in start.val..end.val})

\* the body of the for loop for one part: the error it raises, or the set of
\* indices it adds
parse_range_part(part, total_pages) ==
    LET halves == split_once(part, "-")
        start  == int(strip(halves[1]))
        end    == int(strip(halves[2]))
    IN  IF ~start.ok \/ ~end.ok THEN Raise("Malformed")
        ELSE IF start.val < 1 \/ end.val < 1 THEN Raise("OutOfRange")
        ELSE IF start.val > end.val THEN Raise("InvalidOrder")
        ELSE IF end.val > total_pages THEN Raise("OutOfRange")
        ELSE Ok({n - 1 : n \in start.val..end.val})

\* mutant: the upper bound is not checked
parse_single_part_nomax(part, total_pages) ==
    LET page_num == int(part)
    IN  IF ~page_num.ok THEN Raise("Malformed")
        ELSE IF page_num.val < 1 THEN Raise("OutOfRange")
        ELSE Ok({page_num.val - 1})

parse_single_part(part, total_pages) ==
    LET page_num == int(part)
    IN  IF ~page_num.ok THEN Raise("Malformed")
        ELSE IF page_num.val < 1 THEN Raise("OutOfRange")
        ELSE IF page_num.val > total_pages THEN Raise("OutOfRange")
        ELSE Ok({page_num.val - 1})

parse_part(part, total_pages) ==
    IF find(part, "-") # 0
    THEN parse_range_part(part, total_pages)
    ELSE parse_single_part(part, total_pages)

RECURSIVE parse_parts(_, _, _)
\* the for loop over parts: the first failing part raises
parse_parts(parts, result_set, total_pages) ==
    IF parts = <<>> THEN Ok(sorted(result_set))
    ELSE LET r == parse_part(Head(parts), total_pages)
         IN  IF ~r.ok THEN Raise(r.err)
             ELSE parse_parts(Tail(parts), result_set \cup r.val, total_pages)

parse_page_ranges(text, total_pages) ==
    IF total_pages <= 0 THEN Ok(<<>>)
    ELSE IF strip(text) = <<>> THEN Ok(<<>>)
    ELSE parse_parts(nonempty_parts(split(strip(text), ",")), {}, total_pages)

(***************************************************************************)
(* PDFToolApp._parse_page_ranges (the monolithic app.py): no early return  *)
(* for an empty document, one message for a bound below 1 and for          *)
(* start > end ("BadRange"), the upper bound checked page by page.         *)
(***************************************************************************)
legacy_range_part(part, total_pages) ==
    LET halves == split_once(part, "-")
        start  == int(halves[1])
        end    == int(halves[2])
    IN  IF ~start.ok \/ ~end.ok THEN Raise("Malformed")
        ELSE IF start.val < 1 \/ end.val < 1 \/ start.val > end.val
             THEN Raise("BadRange")
        ELSE IF \E p \in start.val..end.val : p > total_pages
             THEN Raise("OutOfRange")
        ELSE Ok({p - 1 : p \in start.val..end.val})

legacy_single_part(part, total_pages) ==
    LET p == int(part)
    IN  IF ~p.ok THEN Raise("Malformed")
        ELSE IF p.val < 1 \/ p.val > total_pages THEN Raise("OutOfRange")
        ELSE Ok({p.val - 1})

RECURSIVE legacy_parts(_, _, _)
legacy_parts(pieces, result, total_pages) ==
    IF pieces = <<>> THEN Ok(sorted(result))
    ELSE LET part == strip(Head(pieces))
         IN  IF part = <<>> THEN legacy_parts(Tail(pieces), result, total_pages)
             ELSE LET r == IF find(part, "-") # 0
                           THEN legacy_range_part(part, total_pages)
                           ELSE legacy_single_part(part, total_pages)
                  IN  IF ~r.ok THEN Raise(r.err)
                      ELSE legacy_parts(Tail(pieces), result \cup r.val, total_pages)

legacy_parse_page_ranges(text, total_pages) ==
    legacy_parts(split(text, ","), {}, total_pages)

(***************************************************************************)
(* Idle values: what a component's variables hold under the other          *)
(* components' specifications.                                             *)
(***************************************************************************)
NoDrag == <<>>
NoDoc == <<>>
\* an output path: not written by the call, or written with these pages
NoFile == [written |-> FALSE, pages |-> <<>>]
File(pages) == [written |-> TRUE, pages |-> pages]
NoTarget == <<>>
NoError == [kind |-> None, name |-> 0]
NoSplit == [status |-> "NotRun", total_pages |-> 0, kept_pages |-> 0]
NotRun == [ok |-> FALSE, err |-> "NotRun", val |-> <<>>]

IdleView ==
    /\ doc = NoDoc /\ page_items = <<>> /\ selected_pages = {}
    /\ page_rotations = <<>> /\ dragging = NoDrag
IdleParse ==
    /\ p_text = <<>> /\ p_total = 0 /\ p_pc = "idle"
    /\ p_result = NotRun /\ p_legacy = NotRun
IdleSplit ==
    /\ s_doc = [readable |-> FALSE, is_encrypted |-> FALSE, total_pages |-> 0]
    /\ s_mode = None /\ s_targets = <<>> /\ s_pc = "idle"
    /\ s_result = NoSplit /\ s_out = NoFile
IdleMerge ==
    /\ m_inputs = <<>> /\ m_cb = FALSE /\ m_pc = "idle" /\ m_i = 0
    /\ m_writer = <<>> /\ m_opened = <<>> /\ m_progress = <<>> /\ m_out = NoFile
    /\ m_error = NoError
IdleCompress ==
    /\ c_n = 0 /\ c_nout = 0 /\ c_level = 0 /\ c_target = NoTarget
    /\ c_pc = "idle" /\ c_i = 0 /\ c_start = 0 /\ c_src = FALSE /\ c_gs = <<>>
    /\ c_cur = 0 /\ c_used = 0 /\ c_calls = <<>> /\ c_out = <<>>
    /\ c_results = <<>> /\ c_progress = <<>> /\ c_error = NoError

Args(password, forbid_copy, forbid_print, require_open_password) ==
    [password |-> password, forbid_copy |-> forbid_copy,
     forbid_print |-> forbid_print,
     require_open_password |-> require_open_password]
NoArgs == [password |-> <<>>, forbid_copy |-> FALSE, forbid_print |-> FALSE,
           require_open_password |-> FALSE]
IdleProtect ==
    /\ pw_files = <<>> /\ pw_op = None /\ pw_mode = None /\ pw_entry = <<>>
    /\ pw_fc = FALSE /\ pw_fp = FALSE /\ pw_pc = "idle" /\ pw_args = NoArgs
    /\ pw_i = 0 /\ pw_outs = <<>> /\ pw_failed = <<>> /\ pw_success = 0
    /\ pw_progress = <<>> /\ pw_warning = None

Snapshot(items, selected, rotations) ==
    [items |-> items, selected |-> selected, rotations |-> rotations]
IdleOrder ==
    /\ o_op = None /\ o_target = -1 /\ o_before = Snapshot(<<>>, {}, <<>>)
    /\ o_press = <<>> /\ o_inside = TRUE /\ o_out = NoFile
IdleBatch ==
    /\ b_tab = None /\ b_enabled = TRUE /\ b_n = 0 /\ b_tasks = <<>>
    /\ b_queue = <<>> /\ b_seen = <<>> /\ b_started = 0 /\ b_direct = {}

IdleReorder ==
    /\ r_doc = None /\ r_order = <<>> /\ r_rotations = <<>> /\ r_pc = "idle"
    /\ r_status = None /\ r_out = None

IdleDest ==
    /\ d_tab = None /\ d_files = <<>> /\ d_pattern = <<>> /\ d_out_dir = None
    /\ d_exists = {} /\ d_pc = "idle" /\ d_i = 0 /\ d_out_paths = <<>>



(***************************************************************************)
(* SpecParse: both parsers applied to every short page-spec string.        *)
(***************************************************************************)
Alphabet == {"0", "1", "2", "-", ",", " "}

InitParse ==
    /\ p_text \in SeqsUpTo(Alphabet, MaxTextLen)
    /\ p_total \in 0..MaxTotalPages
    /\ p_pc = "ready"
    /\ p_result = NotRun /\ p_legacy = NotRun
    /\ IdleView /\ IdleSplit /\ IdleMerge /\ IdleCompress /\ IdleProtect
    /\ IdleOrder /\ IdleBatch
    /\ IdleReorder
    /\ IdleDest

ParseCall ==
    /\ p_pc = "ready"
    /\ p_result' = parse_page_ranges(p_text, p_total)
    /\ p_legacy' = legacy_parse_page_ranges(p_text, p_total)
    /\ p_pc' = "done"
    /\ UNCHANGED <<p_text, p_total, viewVars, splitVars, mergeVars, compVars,
                   protectVars, orderVars, batchVars, reorderVars, destVars>>

NextParse == ParseCall

SpecParse == InitParse /\ [][NextParse]_vars

(***************************************************************************)
(* What a page-spec string says, read off the string itself: its tokens,   *)
(* the one-based numbers a token names, whether a token is valid.          *)
(***************************************************************************)
Tokens(text) == nonempty_parts(split(text, ","))
IsRangeToken(tok) == \E i \in 1..Len(tok) : tok[i] = "-"
RangeStart(tok) == int(split_once(tok, "-")[1])
RangeEnd(tok) == int(split_once(tok, "-")[2])
\* a range token a-b whose two sides are integers
IsIntRange(tok) == IsRangeToken(tok) /\ RangeStart(tok).ok /\ RangeEnd(tok).ok
\* a single-number token
IsIntSingle(tok) == ~IsRangeToken(tok) /\ int(tok).ok

TokenValid(tok, pageCount) ==
    IF IsRangeToken(tok)
    THEN /\ IsIntRange(tok)
         /\ 1 <= RangeStart(tok).val
         /\ RangeStart(tok).val <= RangeEnd(tok).val
         /\ RangeEnd(tok).val <= pageCount
    ELSE IsIntSingle(tok) /\ 1 <= int(tok).val /\ int(tok).val <= pageCount

NamedBy(tok) ==
    IF IsRangeToken(tok) THEN RangeStart(tok).val..RangeEnd(tok).val
    ELSE {int(tok).val}

AllTokensValid(text, pageCount) ==
    \A k \in 1..Len(Tokens(text)) : TokenValid(Tokens(text)[k], pageCount)

NamedIndices(text) ==
    {n - 1 : n \in UNION {NamedBy(Tokens(text)[k]) : k \in 1..Len(Tokens(text))}}

StrictlyAscending(s) == \A i \in 1..(Len(s) - 1) : s[i] < s[i + 1]

\* the parser returned exactly this index set, as a PageIndexSet
ReturnsIndexSet(r, S, pageCount) ==
    /\ r.ok
    /\ StrictlyAscending(r.val)
    /\ Range(r.val) = S
    /\ Range(r.val) \subseteq 0..(pageCount - 1)

\* token k is the first token that is not valid
FirstInvalid(text, pageCount, k) ==
    /\ k \in 1..Len(Tokens(text))
    /\ ~TokenValid(Tokens(text)[k], pageCount)
    /\ \A j \in 1..(k - 1) : TokenValid(Tokens(text)[j], pageCount)

\* C4: a page-spec whose tokens are all valid parses, in both parsers, to
\* exactly the zero-based indices its tokens name, strictly ascending and
\* within 0..pageCount-1, whatever the order, overlap and repetition of the
\* tokens; a spec without tokens (empty, blanks, commas) parses to the empty
\* sequence and is no error.
C4_ParseValid ==
    (p_pc = "done" /\ AllTokensValid(p_text, p_total)) =>
        /\ ReturnsIndexSet(p_result, NamedIndices(p_text), p_total)
        /\ ReturnsIndexSet(p_legacy, NamedIndices(p_text), p_total)
        /\ (Tokens(p_text) = <<>> =>
                p_result = Ok(<<>>) /\ p_legacy = Ok(<<>>))

\* "2,1-2" of a 2-page document: out of order and overlapping, parsed to 0,1
C4_Witness ==
    /\ p_pc = "done"
    /\ p_text = <<"2", ",", "1", "-", "2">>
    /\ p_total = 2
    /\ p_result = Ok(<<0, 1>>)

\* some token is a single number below 1 or above pageCount
HasBadSingle(text, pageCount) ==
    \E k \in 1..Len(Tokens(text)) :
        LET tok == Tokens(text)[k]
        IN  IsIntSingle(tok) /\ (int(tok).val < 1 \/ int(tok).val > pageCount)

\* every token but token k is valid
OthersValid(text, pageCount, k) ==
    \A j \in 1..Len(Tokens(text)) :
        j # k => TokenValid(Tokens(text)[j], pageCount)

\* C5 as stated: for every pageCount, 0 included, a spec containing a
\* single-number token n with n < 1 or n > pageCount fails with OutOfRange
\* (read here in its weakest form: the other tokens of the spec are valid).
C5_Original ==
    p_pc = "done" =>
        \A k \in 1..Len(Tokens(p_text)) :
            LET tok == Tokens(p_text)[k]
            IN  ( /\ IsIntSingle(tok)
                  /\ (int(tok).val < 1 \/ int(tok).val > p_total)
                  /\ OthersValid(p_text, p_total, k) ) =>
                    (~p_result.ok /\ p_result.err = "OutOfRange")

\* C5, amended: for pageCount >= 1 a spec containing a single-number token n
\* with n < 1 or n > pageCount never returns an index set, and fails with
\* OutOfRange when that token is the first invalid token of the spec (an
\* earlier invalid token raises its own error first); for pageCount <= 0
\* parse_page_ranges returns the empty sequence whatever the spec.
C5_BadSingle ==
    p_pc = "done" =>
        /\ (p_total >= 1 /\ HasBadSingle(p_text, p_total)) => ~p_result.ok
        /\ p_total >= 1 =>
              \A k \in 1..Len(Tokens(p_text)) :
                  ( /\ FirstInvalid(p_text, p_total, k)
                    /\ IsIntSingle(Tokens(p_text)[k]) )
                  => p_result = Raise("OutOfRange")
        /\ p_total <= 0 => p_result = Ok(<<>>)

\* "1,10" of a 2-page document: a valid token, then page 10
C5_Witness ==
    /\ p_pc = "done"
    /\ p_text = <<"1", ",", "1", "0">>
    /\ p_total = 2
    /\ p_result = Raise("OutOfRange")

\* C6 as stated: a range token a-b fails with InvalidOrder whenever a > b,
\* whatever a and b, and with OutOfRange whenever a <= b and (a < 1 or
\* b > pageCount) (read here in its weakest form: for documents that have
\* pages and specs whose other tokens are valid).
C6_Original ==
    (p_pc = "done" /\ p_total >= 1) =>
        \A k \in 1..Len(Tokens(p_text)) :
            LET tok == Tokens(p_text)[k]
                a   == RangeStart(tok).val
                b   == RangeEnd(tok).val
            IN  (IsIntRange(tok) /\ OthersValid(p_text, p_total, k)) =>
                  /\ a > b => p_result = Raise("InvalidOrder")
                  /\ (a <= b /\ (a < 1 \/ b > p_total)) =>
                        p_result = Raise("OutOfRange")

\* C6, amended: a spec containing a range token a-b with a < 1, b < 1, a > b
\* or b > pageCount never returns an index set, even if its other tokens are
\* valid (parse_page_ranges: for pageCount >= 1).  When the token is the first
\* invalid token, parse_page_ranges fails with OutOfRange if a < 1 or b < 1,
\* else with InvalidOrder if a > b, else with OutOfRange; the older
\* _parse_page_ranges has one error for a < 1, b < 1 and a > b, and
\* OutOfRange for b > pageCount.
C6_BadRange ==
    p_pc = "done" =>
        \A k \in 1..Len(Tokens(p_text)) :
            LET tok == Tokens(p_text)[k]
                a   == RangeStart(tok).val
                b   == RangeEnd(tok).val
            IN  (IsIntRange(tok) /\ ~TokenValid(tok, p_total)) =>
                  /\ p_total >= 1 => ~p_result.ok
                  /\ ~p_legacy.ok
                  /\ (p_total >= 1 /\ FirstInvalid(p_text, p_total, k)) =>
                        p_result =
                            IF a < 1 \/ b < 1 THEN Raise("OutOfRange")
                            ELSE IF a > b THEN Raise("InvalidOrder")
                            ELSE Raise("OutOfRange")
                  /\ FirstInvalid(p_text, p_total, k) =>
                        p_legacy =
                            IF a < 1 \/ b < 1 \/ a > b THEN Raise("BadRange")
                            ELSE Raise("OutOfRange")

\* "1,2-1" of a 2-page document: a valid token, then a reversed range
C6_Witness ==
    /\ p_pc = "done"
    /\ p_text = <<"1", ",", "2", "-", "1">>
    /\ p_total = 2
    /\ p_result = Raise("InvalidOrder")
    /\ p_legacy = Raise("BadRange")

(***************************************************************************)
(* PageThumbnailView (src/components/page_views.py).  page_items is the    *)
(* display order; the code's positions are zero-based.                     *)
(***************************************************************************)
Item(items, i) == items[i + 1]
Positions(items) == 0..(Len(items) - 1)

\* [i for i, it in enumerate(items) if it["page_index"] in selected]
selected_indices(items, selected) ==
    {i \in Positions(items) : Item(items, i) \in selected}

\* items[i], items[j] = items[j], items[i]
swap(items, i, j) ==
    [items EXCEPT ![i + 1] = items[j + 1], ![j + 1] = items[i + 1]]

RECURSIVE swap_each(_, _, _)
\* for idx in idxs: swap items[idx] and items[idx + d]
swap_each(items, idxs, d) ==
    IF idxs = <<>> THEN items
    ELSE swap_each(swap(items, Head(idxs), Head(idxs) + d), Tail(idxs), d)

RECURSIVE reversed(_)
reversed(s) == IF s = <<>> THEN <<>> ELSE Append(reversed(Tail(s)), Head(s))

\* the selected items gathered into one block, one slot further up
move_selected_up_as_block(items, selected) ==
    LET sel == selected_indices(items, selected)
        first == CHOOSE i \in sel : \A j \in sel : i <= j
        others == Filter(items, Range(items) \ selected)
        before_count ==
            Cardinality({j \in Positions(items) : j < first /\ j \notin sel})
    IN  IF selected = {} THEN items
        ELSE IF 0 \in sel THEN items
        ELSE SubSeq(others, 1, before_count - 1) \o Filter(items, selected)
             \o SubSeq(others, before_count, Len(others))

\* the test for a selected item at the top left out for the other items
move_selected_up_skip_top(items, selected) ==
    LET sel == selected_indices(items, selected)
    IN  IF selected = {} THEN items
        ELSE swap_each(items, sorted(sel \ {0}), -1)

move_selected_up(items, selected) ==
    LET sel == selected_indices(items, selected)
    IN  IF selected = {} THEN items
        ELSE IF 0 \in sel THEN items
        ELSE swap_each(items, sorted(sel), -1)

\* the selected items gathered into one block, one slot further down
move_selected_down_as_block(items, selected) ==
    LET sel == selected_indices(items, selected)
        first == CHOOSE i \in sel : \A j \in sel : i <= j
        others == Filter(items, Range(items) \ selected)
        before_count ==
            Cardinality({j \in Positions(items) : j < first /\ j \notin sel})
    IN  IF selected = {} THEN items
        ELSE IF (Len(items) - 1) \in sel THEN items
        ELSE SubSeq(others, 1, before_count + 1) \o Filter(items, selected)
             \o SubSeq(others, before_count + 2, Len(others))

move_selected_down(items, selected) ==
    LET sel == selected_indices(items, selected)
    IN  IF selected = {} THEN items
        ELSE IF (Len(items) - 1) \in sel THEN items
        ELSE swap_each(items, reversed(sorted(sel)), 1)

\* mutant: the selected items are not taken out of the rest
move_selected_to_top_dup(items, selected) ==
    IF selected = {} THEN items
    ELSE Filter(items, selected) \o items

move_selected_to_top(items, selected) ==
    IF selected = {} THEN items
    ELSE Filter(items, selected) \o Filter(items, Range(items) \ selected)

\* the selected items appended in reverse
move_selected_to_bottom_reversed(items, selected) ==
    IF selected = {} THEN items
    ELSE Filter(items, Range(items) \ selected)
         \o reversed(Filter(items, selected))

move_selected_to_bottom(items, selected) ==
    IF selected = {} THEN items
    ELSE Filter(items, Range(items) \ selected) \o Filter(items, selected)

\* _on_motion without a selection: the item at start_idx is popped and
\* reinserted at target_idx
drag_single(items, start_idx, target_idx) ==
    IF target_idx = start_idx THEN items
    ELSE LET rest == SubSeq(items, 1, start_idx)
                     \o SubSeq(items, start_idx + 2, Len(items))
             pos  == Min2(target_idx, Len(rest))
         IN  SubSeq(rest, 1, pos) \o <<Item(items, start_idx)>>
             \o SubSeq(rest, pos + 1, Len(rest))

\* the test for a target inside the selection's span left out
drag_block_no_span(items, sel, target_idx) ==
    LET block_items == [k \in 1..Cardinality(sel) |-> Item(items, sorted(sel)[k])]
        others == Filter(items, {Item(items, i) : i \in Positions(items) \ sel})
        before_count ==
            Cardinality({j \in Positions(items) : j < target_idx /\ j \notin sel})
    IN  SubSeq(others, 1, before_count) \o block_items
        \o SubSeq(others, before_count + 1, Len(others))

\* before_count counting the selected positions too
drag_block_counts_all(items, sel, target_idx) ==
    LET first == CHOOSE i \in sel : \A j \in sel : i <= j
        last  == CHOOSE i \in sel : \A j \in sel : i >= j
        block_items == [k \in 1..Cardinality(sel) |-> Item(items, sorted(sel)[k])]
        others == Filter(items, {Item(items, i) : i \in Positions(items) \ sel})
        before_count == Min2(target_idx, Len(others))
    IN  IF first <= target_idx /\ target_idx <= last THEN items
        ELSE SubSeq(others, 1, before_count) \o block_items
             \o SubSeq(others, before_count + 1, Len(others))

\* mutant: the page at the target position is counted before the block
drag_block_after_target(items, sel, target_idx) ==
    LET first == CHOOSE i \in sel : \A j \in sel : i <= j
        last  == CHOOSE i \in sel : \A j \in sel : i >= j
        block_items == [k \in 1..Cardinality(sel) |-> Item(items, sorted(sel)[k])]
        others == Filter(items, {Item(items, i) : i \in Positions(items) \ sel})
        before_count ==
            Cardinality({j \in Positions(items) : j <= target_idx /\ j \notin sel})
    IN  IF first <= target_idx /\ target_idx <= last THEN items
        ELSE SubSeq(others, 1, before_count) \o block_items
             \o SubSeq(others, before_count + 1, Len(others))

\* mutant: the first and the last selected position count as outside the span
drag_block_open_span(items, sel, target_idx) ==
    LET first == CHOOSE i \in sel : \A j \in sel : i <= j
        last  == CHOOSE i \in sel : \A j \in sel : i >= j
        block_items == [k \in 1..Cardinality(sel) |-> Item(items, sorted(sel)[k])]
        others == Filter(items, {Item(items, i) : i \in Positions(items) \ sel})
        before_count ==
            Cardinality({j \in Positions(items) : j < target_idx /\ j \notin sel})
    IN  IF first < target_idx /\ target_idx < last THEN items
        ELSE SubSeq(others, 1, before_count) \o block_items
             \o SubSeq(others, before_count + 1, Len(others))

\* _on_motion with a selection at positions sel
drag_block(items, sel, target_idx) ==
    LET first == CHOOSE i \in sel : \A j \in sel : i <= j
        last  == CHOOSE i \in sel : \A j \in sel : i >= j
        block_items == [k \in 1..Cardinality(sel) |-> Item(items, sorted(sel)[k])]
        others == Filter(items, {Item(items, i) : i \in Positions(items) \ sel})
        before_count ==
            Cardinality({j \in Positions(items) : j < target_idx /\ j \notin sel})
    IN  IF first <= target_idx /\ target_idx <= last THEN items
        ELSE SubSeq(others, 1, before_count) \o block_items
             \o SubSeq(others, before_count + 1, Len(others))

on_motion(items, selected, drag, target_idx) ==
    LET sel == selected_indices(items, selected)
    IN  IF sel = {} THEN drag_single(items, drag[2], target_idx)
        ELSE drag_block(items, sel, target_idx)

\* mutant: the angle is not reduced modulo 360
rotate_selected_unreduced(rotations, selected, delta_angle) ==
    [i \in DOMAIN rotations |->
        IF i \in selected THEN rotations[i] + delta_angle
        ELSE rotations[i]]

\* (current + delta_angle) % 360 for every selected page
rotate_selected(rotations, selected, delta_angle) ==
    [i \in DOMAIN rotations |->
        IF i \in selected THEN (rotations[i] + delta_angle) % 360
        ELSE rotations[i]]

Deltas == {90, -90}

\* the view as constructed
InitView ==
    /\ doc = NoDoc /\ page_items = <<>> /\ selected_pages = {}
    /\ page_rotations = <<>> /\ dragging = NoDrag

Init ==
    /\ InitView /\ IdleParse /\ IdleSplit /\ IdleMerge /\ IdleCompress
    /\ IdleProtect /\ IdleOrder /\ IdleBatch
    /\ IdleReorder
    /\ IdleDest

UnchangedOthers ==
    UNCHANGED <<parseVars, splitVars, mergeVars, compVars, protectVars,
                orderVars, batchVars, reorderVars, destVars>>

\* load_pdf: clear(), then one item per page, page 0 selected
LoadPdf(n) ==
    /\ doc' = <<n>>
    /\ page_rotations' = [i \in 0..(n - 1) |-> 0]
    /\ page_items' = [k \in 1..n |-> k - 1]
    /\ selected_pages' = IF n > 0 THEN {0} ELSE {}
    /\ dragging' = NoDrag
    /\ UnchangedOthers

\* clear
Clear ==
    /\ doc' = NoDoc /\ page_items' = <<>> /\ selected_pages' = {}
    /\ page_rotations' = <<>> /\ dragging' = NoDrag
    /\ UnchangedOthers

\* mutant: a press with Ctrl held starts a drag too
OnPress_ctrl_drags(idx, ctrl_pressed) ==
    /\ dragging = NoDrag
    /\ idx \in Positions(page_items)
    /\ LET page_index == Item(page_items, idx)
       IN  IF ctrl_pressed
           THEN /\ selected_pages' =
                       IF page_index \in selected_pages
                       THEN selected_pages \ {page_index}
                       ELSE selected_pages \cup {page_index}
                /\ dragging' = <<page_index, idx>>
           ELSE /\ selected_pages' =
                       IF page_index \in selected_pages THEN selected_pages
                       ELSE {page_index}
                /\ dragging' = <<page_index, idx>>
    /\ UNCHANGED <<doc, page_items, page_rotations>>
    /\ UnchangedOthers

\* _on_press on the item at display position idx; Button-1 presses and
\* releases alternate, so there is no press while a drag is in progress
OnPress(idx, ctrl_pressed) ==
    /\ dragging = NoDrag
    /\ idx \in Positions(page_items)
    /\ LET page_index == Item(page_items, idx)
       IN  IF ctrl_pressed
           THEN /\ selected_pages' =
                       IF page_index \in selected_pages
                       THEN selected_pages \ {page_index}
                       ELSE selected_pages \cup {page_index}
                /\ dragging' = NoDrag
           ELSE /\ selected_pages' =
                       IF page_index \in selected_pages THEN selected_pages
                       ELSE {page_index}
                /\ dragging' = <<page_index, idx>>
    /\ UNCHANGED <<doc, page_items, page_rotations>>
    /\ UnchangedOthers

\* _on_motion with nearest_index(y) = target_idx
OnMotion(target_idx) ==
    /\ target_idx \in Positions(page_items)
    /\ page_items' =
           IF dragging = NoDrag THEN page_items
           ELSE on_motion(page_items, selected_pages, dragging, target_idx)
    /\ UNCHANGED <<doc, selected_pages, page_rotations, dragging>>
    /\ UnchangedOthers

\* _on_release
OnRelease ==
    /\ dragging' = NoDrag
    /\ UNCHANGED <<doc, page_items, selected_pages, page_rotations>>
    /\ UnchangedOthers

MoveUp ==
    /\ page_items' = move_selected_up(page_items, selected_pages)
    /\ UNCHANGED <<doc, selected_pages, page_rotations, dragging>>
    /\ UnchangedOthers

MoveDown ==
    /\ page_items' = move_selected_down(page_items, selected_pages)
    /\ UNCHANGED <<doc, selected_pages, page_rotations, dragging>>
    /\ UnchangedOthers

MoveToTop ==
    /\ page_items' = move_selected_to_top(page_items, selected_pages)
    /\ UNCHANGED <<doc, selected_pages, page_rotations, dragging>>
    /\ UnchangedOthers

MoveToBottom ==
    /\ page_items' = move_selected_to_bottom(page_items, selected_pages)
    /\ UNCHANGED <<doc, selected_pages, page_rotations, dragging>>
    /\ UnchangedOthers

Rotate(delta_angle) ==
    /\ page_rotations' =
           IF selected_pages = {} \/ doc = NoDoc THEN page_rotations
           ELSE rotate_selected(page_rotations, selected_pages, delta_angle)
    /\ UNCHANGED <<doc, page_items, selected_pages, dragging>>
    /\ UnchangedOthers

Next ==
    \/ \E n \in 0..MaxPages : LoadPdf(n)
    \/ Clear
    \/ \E idx \in 0..(MaxPages - 1), ctrl \in BOOLEAN : OnPress(idx, ctrl)
    \/ \E target_idx \in 0..(MaxPages - 1) : OnMotion(target_idx)
    \/ OnRelease
    \/ MoveUp
    \/ MoveDown
    \/ MoveToTop
    \/ MoveToBottom
    \/ \E delta_angle \in Deltas : Rotate(delta_angle)

Spec == Init /\ [][Next]_vars

\* C1: after load(n) and any sequence of moves, drag steps, selection clicks
\* and rotations the display order is a permutation of 0..n-1: its length is
\* n and no page index is missing or duplicated.
C1_OrderIsPermutation ==
    doc # NoDoc =>
        /\ Len(page_items) = doc[1]
        /\ \A p \in 0..(doc[1] - 1) :
               Cardinality({k \in 1..Len(page_items) : page_items[k] = p}) = 1

\* three pages reordered to 2,0,1 in the middle of a drag, a page rotated
C1_Witness ==
    /\ doc = <<3>>
    /\ page_items = <<2, 0, 1>>
    /\ dragging # NoDrag
    /\ Cardinality(selected_pages) = 2
    /\ \E p \in DOMAIN page_rotations : page_rotations[p] = 270

(***************************************************************************)
(* split_pdf (src/services/pdf_split.py).  The source document is          *)
(* [readable, is_encrypted, total_pages]; a page is its original index.    *)
(***************************************************************************)
\* mutant: the targets as entered, neither sorted nor deduplicated
keep_pages_as_entered(targets) == targets

\* sorted(set(target_indices_0based))
keep_pages(targets) == sorted(Range(targets))

\* mutant: the deleted pages are the ones kept
delete_pages_inverted(targets, total_pages) ==
    sorted({i \in 0..(total_pages - 1) : i \in Range(targets)})

\* mutant: the page numbers 1..n in place of the indices 0..n-1
range_from_one(n) == [k \in 1..n |-> k]

\* range(n)
range(n) == [k \in 1..n |-> k - 1]

\* [i for i in range(total_pages) if i not in pages_to_delete]
delete_pages(targets, total_pages) ==
    Filter(range(total_pages), (0..(total_pages - 1)) \ Range(targets))

SplitFail(kind, total_pages) ==
    [status |-> kind, total_pages |-> total_pages, kept_pages |-> 0]

\* mutant: the targets are validated before the document is looked at
split_pdf_targets_first(document, mode, targets) ==
    LET total_pages == document.total_pages
        pages_to_keep ==
            IF mode = "keep" THEN keep_pages(targets)
            ELSE delete_pages(targets, total_pages)
    IN  IF mode \notin {"keep", "delete"} THEN <<SplitFail("BadMode", 0), NoFile>>
        ELSE IF ~document.readable THEN <<SplitFail("PDFSplitError", 0), NoFile>>
        ELSE IF targets = <<>> THEN <<SplitFail("NoTargets", total_pages), NoFile>>
        ELSE IF document.is_encrypted THEN <<SplitFail("Encrypted", 0), NoFile>>
        ELSE IF total_pages = 0 THEN <<SplitFail("Empty", total_pages), NoFile>>
        ELSE IF \E k \in 1..Len(targets) :
                    targets[k] < 0 \/ targets[k] >= total_pages
             THEN <<SplitFail("IndexOutOfRange", total_pages), NoFile>>
        ELSE IF pages_to_keep = <<>>
             THEN <<SplitFail("NothingRemains", total_pages), NoFile>>
        ELSE << [status |-> "ok", total_pages |-> total_pages,
                 kept_pages |-> Len(pages_to_keep)],
                File(pages_to_keep) >>

\* <<SplitResult or the error raised, the pages written to out_path>>
split_pdf(document, mode, targets) ==
    LET total_pages == document.total_pages
        pages_to_keep ==
            IF mode = "keep" THEN keep_pages(targets)
            ELSE delete_pages(targets, total_pages)
    IN  IF mode \notin {"keep", "delete"} THEN <<SplitFail("BadMode", 0), NoFile>>
        ELSE IF ~document.readable THEN <<SplitFail("PDFSplitError", 0), NoFile>>
        ELSE IF document.is_encrypted THEN <<SplitFail("Encrypted", 0), NoFile>>
        ELSE IF total_pages = 0 THEN <<SplitFail("Empty", total_pages), NoFile>>
        ELSE IF targets = <<>> THEN <<SplitFail("NoTargets", total_pages), NoFile>>
        ELSE IF \E k \in 1..Len(targets) :
                    targets[k] < 0 \/ targets[k] >= total_pages
             THEN <<SplitFail("IndexOutOfRange", total_pages), NoFile>>
        ELSE IF pages_to_keep = <<>>
             THEN <<SplitFail("NothingRemains", total_pages), NoFile>>
        ELSE << [status |-> "ok", total_pages |-> total_pages,
                 kept_pages |-> Len(pages_to_keep)],
                File(pages_to_keep) >>

Modes == {"keep", "delete", "other"}

\* a file that is at out_path before the call, with a content no split of
\* the documents here writes
Previous == File(<<MaxSplitPages>>)

InitSplit ==
    /\ s_doc \in [readable : BOOLEAN, is_encrypted : BOOLEAN,
                  total_pages : 0..MaxSplitPages]
    /\ s_mode \in Modes
    /\ s_targets \in SeqsUpTo((-1)..MaxSplitPages, MaxTargets)
    /\ s_pc = "ready"
    /\ s_result = NoSplit /\ s_out \in {NoFile, Previous}
    /\ IdleView /\ IdleParse /\ IdleMerge /\ IdleCompress /\ IdleProtect
    /\ IdleOrder /\ IdleBatch
    /\ IdleReorder
    /\ IdleDest

SplitCall ==
    /\ s_pc = "ready"
    /\ s_result' = split_pdf(s_doc, s_mode, s_targets)[1]
    /\ s_out' = IF split_pdf(s_doc, s_mode, s_targets)[2].written
               THEN split_pdf(s_doc, s_mode, s_targets)[2]
               ELSE s_out
    /\ s_pc' = "done"
    /\ UNCHANGED <<s_doc, s_mode, s_targets, viewVars, parseVars, mergeVars,
                   compVars, protectVars, orderVars, batchVars, reorderVars, destVars>>

NextSplit == SplitCall

SpecSplit == InitSplit /\ [][NextSplit]_vars

\* a document split_pdf can work on, and a non-empty list of valid targets
SplittableDoc == s_doc.readable /\ ~s_doc.is_encrypted
ValidTargets ==
    /\ s_targets # <<>>
    /\ \A k \in 1..Len(s_targets) :
           0 <= s_targets[k] /\ s_targets[k] < s_doc.total_pages

\* C2: Keep mode with a non-empty list of valid targets, in any order and with
\* any repetitions, outputs exactly the distinct targets in ascending index
\* order, and keptPages is the number of distinct targets.
C2_KeepSorted ==
    (s_pc = "done" /\ s_mode = "keep" /\ SplittableDoc /\ ValidTargets) =>
        /\ s_result.status = "ok"
        /\ s_out.written
        /\ StrictlyAscending(s_out.pages)
        /\ Range(s_out.pages) = Range(s_targets)
        /\ s_result.kept_pages = Cardinality(Range(s_targets))
        /\ s_result.kept_pages = Len(s_out.pages)

\* targets 2,0,2 of a 3-page document: out of order, one repeated
C2_Witness ==
    /\ s_pc = "done" /\ s_mode = "keep" /\ SplittableDoc
    /\ s_doc.total_pages = 3
    /\ s_targets = <<2, 0, 2>>
    /\ s_out = File(<<0, 2>>)
    /\ s_result.kept_pages = 2

\* C3: Delete mode with valid targets that do not cover every page outputs
\* exactly the original indices not in targets, ascending, with
\* keptPages = totalPages - |targets| (targets counted as a set).
C3_DeleteComplement ==
    ( /\ s_pc = "done" /\ s_mode = "delete" /\ SplittableDoc /\ ValidTargets
      /\ Range(s_targets) # 0..(s_doc.total_pages - 1) ) =>
        /\ s_result.status = "ok"
        /\ s_out.written
        /\ StrictlyAscending(s_out.pages)
        /\ Range(s_out.pages) = (0..(s_doc.total_pages - 1)) \ Range(s_targets)
        /\ s_result.total_pages = s_doc.total_pages
        /\ s_result.kept_pages = s_doc.total_pages - Cardinality(Range(s_targets))
        /\ s_result.kept_pages = Len(s_out.pages)

\* the 3-page document with spec "2" (index 1) deleted: pages 1 and 3 remain
C3_Witness ==
    /\ s_pc = "done" /\ s_mode = "delete" /\ SplittableDoc
    /\ s_doc.total_pages = 3
    /\ s_targets = <<1>>
    /\ s_out = File(<<0, 2>>)
    /\ s_result = [status |-> "ok", total_pages |-> 3, kept_pages |-> 2]

(***************************************************************************)
(* merge_pdfs (src/services/pdf_merge.py).  An input is [kind, npages]:    *)
(* a path that does not exist, is no file, cannot be read as a PDF, is an  *)
(* encrypted PDF, or is a plain PDF of npages pages.  A source is named by *)
(* its place in the input list; page p of source i is <<i, p>>.            *)
(***************************************************************************)
PlainSource(n) == [kind |-> "plain", npages |-> n]
Sources ==
    {[kind |-> k, npages |-> 0] : k \in {"missing", "notfile", "corrupt", "encrypted"}}
    \cup {PlainSource(n) : n \in 0..MaxSrcPages}

MergeError(kind, i) == [kind |-> kind, name |-> i]

\* reader.pages of source i
PagesOf(inputs, i) == [p \in 1..inputs[i].npages |-> <<i, p>>]

\* the validation before the loop: the first path that does not exist or is
\* no file raises
validate_inputs(inputs) ==
    IF inputs = <<>> THEN MergeError("EmptyInput", 0)
    ELSE IF \E i \in 1..Len(inputs) : inputs[i].kind \in {"missing", "notfile"}
    THEN LET i == CHOOSE i \in 1..Len(inputs) :
                      /\ inputs[i].kind \in {"missing", "notfile"}
                      /\ \A j \in 1..(i - 1) : inputs[j].kind \notin {"missing", "notfile"}
         IN  MergeError(IF inputs[i].kind = "missing" THEN "FileNotFound"
                        ELSE "NotAFile", i)
    ELSE NoError

\* mutant: an encrypted source is read like a plain one
open_source_unchecked(inputs, i) ==
    IF inputs[i].kind = "corrupt" THEN MergeError("PDFMergeError", i)
    ELSE NoError

\* PdfReader(path) and the is_encrypted check of source i
open_source(inputs, i) ==
    IF inputs[i].kind = "corrupt" THEN MergeError("PDFMergeError", i)
    ELSE IF inputs[i].kind = "encrypted" THEN MergeError("Encrypted", i)
    ELSE NoError

\* mutant: the progress of the sources before this one
merge_progress_before(i, total) == [num |-> (i - 1) * 100, den |-> total]

\* (i / total) * 100, as the fraction num/den
merge_progress(i, total) == [num |-> i * 100, den |-> total]

InitMerge ==
    /\ m_inputs \in SeqsUpTo(Sources, MaxSources)
    /\ m_cb \in BOOLEAN
    /\ m_pc = "start"
    /\ m_i = 0 /\ m_writer = <<>> /\ m_opened = <<>> /\ m_progress = <<>>
    /\ m_out = NoFile /\ m_error = NoError
    /\ IdleView /\ IdleParse /\ IdleSplit /\ IdleCompress /\ IdleProtect
    /\ IdleOrder /\ IdleBatch
    /\ IdleReorder
    /\ IdleDest

UnchangedByMerge ==
    UNCHANGED <<viewVars, parseVars, splitVars, compVars, protectVars,
                orderVars, batchVars, reorderVars, destVars>>

\* the checks before the try block
MergeValidate ==
    /\ m_pc = "start"
    /\ m_error' = validate_inputs(m_inputs)
    /\ m_pc' = IF validate_inputs(m_inputs) = NoError THEN "loop" ELSE "done"
    /\ UNCHANGED <<m_inputs, m_cb, m_i, m_writer, m_opened, m_progress, m_out>>
    /\ UnchangedByMerge

\* one iteration of the loop over the sources
MergeSource ==
    /\ m_pc = "loop"
    /\ m_i < Len(m_inputs)
    /\ LET i == m_i + 1
           e == open_source(m_inputs, i)
       IN  /\ m_opened' = Append(m_opened, i)
           /\ IF e # NoError
              THEN /\ m_error' = e
                   /\ m_pc' = "done"
                   /\ UNCHANGED <<m_i, m_writer, m_progress>>
              ELSE /\ m_writer' = m_writer \o PagesOf(m_inputs, i)
                   /\ m_progress' =
                          IF m_cb
                          THEN Append(m_progress, merge_progress(i, Len(m_inputs)))
                          ELSE m_progress
                   /\ m_i' = i
                   /\ UNCHANGED <<m_error, m_pc>>
    /\ UNCHANGED <<m_inputs, m_cb, m_out>>
    /\ UnchangedByMerge

\* the write of the merged document after the loop
MergeWrite ==
    /\ m_pc = "loop"
    /\ m_i = Len(m_inputs)
    /\ m_out' = File(m_writer)
    /\ m_pc' = "done"
    /\ UNCHANGED <<m_inputs, m_cb, m_i, m_writer, m_opened, m_progress, m_error>>
    /\ UnchangedByMerge

NextMerge == MergeValidate \/ MergeSource \/ MergeWrite

SpecMerge == InitMerge /\ [][NextMerge]_vars

AnyEncrypted == \E i \in 1..Len(m_inputs) : m_inputs[i].kind = "encrypted"
FirstEncrypted ==
    CHOOSE i \in 1..Len(m_inputs) :
        /\ m_inputs[i].kind = "encrypted"
        /\ \A j \in 1..(i - 1) : m_inputs[j].kind # "encrypted"

\* C7: if a source of the input list is encrypted, the merge fails, the
\* output path is never written and no source after the first encrypted one
\* is read, wherever it stands in the list; once that source has reported
\* itself encrypted the merge has failed with EncryptedSource naming it.
C7_EncryptedRejected ==
    AnyEncrypted =>
        /\ ~m_out.written
        /\ \A k \in 1..Len(m_opened) : m_opened[k] <= FirstEncrypted
        /\ m_pc = "done" => m_error # NoError
        /\ (\E k \in 1..Len(m_opened) : m_opened[k] = FirstEncrypted) =>
               /\ m_pc = "done"
               /\ m_error = MergeError("Encrypted", FirstEncrypted)
               /\ m_opened[Len(m_opened)] = FirstEncrypted

\* plain, encrypted, plain: the merge stopped at the second source
C7_Witness ==
    /\ m_pc = "done"
    /\ m_inputs = <<PlainSource(2), [kind |-> "encrypted", npages |-> 0],
                    PlainSource(1)>>
    /\ m_opened = <<1, 2>>
    /\ m_error = MergeError("Encrypted", 2)
    /\ ~m_out.written

AllPlain == \A i \in 1..Len(m_inputs) : m_inputs[i].kind = "plain"

RECURSIVE ConcatPages(_, _)
\* the pages of the first n sources, source by source
ConcatPages(inputs, n) ==
    IF n = 0 THEN <<>>
    ELSE ConcatPages(inputs, n - 1) \o [p \in 1..inputs[n].npages |-> <<n, p>>]

RECURSIVE SumPages(_, _)
SumPages(inputs, n) ==
    IF n = 0 THEN 0 ELSE SumPages(inputs, n - 1) + inputs[n].npages

\* C8: when every source is a readable, unencrypted PDF, the pages written
\* are the sources' pages concatenated in input order (their count the sum
\* of the sources' page counts), and with a progress callback exactly one
\* value i/total is reported after the i-th source, the last being 100%.
C8_MergeConcatenates ==
    (AllPlain /\ m_inputs # <<>> /\ m_pc # "start") =>
        /\ m_writer = ConcatPages(m_inputs, m_i)
        /\ m_cb =>
              /\ Len(m_progress) = m_i
              /\ \A i \in 1..m_i :
                     /\ m_progress[i].num = i * 100
                     /\ m_progress[i].den = Len(m_inputs)
        /\ ~m_cb => m_progress = <<>>
        /\ m_pc = "done" =>
              /\ m_error = NoError
              /\ m_out = File(ConcatPages(m_inputs, Len(m_inputs)))
              /\ Len(m_out.pages) = SumPages(m_inputs, Len(m_inputs))
              /\ m_cb => m_progress[Len(m_progress)].num
                             = 100 * m_progress[Len(m_progress)].den

\* three sources of 1, 0 and 2 pages merged with a progress callback
C8_Witness ==
    /\ m_pc = "done" /\ m_cb
    /\ m_inputs = <<PlainSource(1), PlainSource(0), PlainSource(2)>>
    /\ m_out = File(<< <<1, 1>>, <<3, 1>>, <<3, 2>> >>)
    /\ Len(m_progress) = 3

(***************************************************************************)
(* compress_pdfs / compress_pdf_auto (src/services/pdf_compress.py).       *)
(* Presets are rung indices 0..NumPresets-1 of COMPRESSION_PRESETS, from   *)
(* the least to the most compressed.  Ghostscript is an oracle c_gs from   *)
(* rung to output size, fixed per source; sizes and the target are in the  *)
(* same unit, so new_mb <= target_mb is size <= target.                    *)
(***************************************************************************)
NumPresets == 5
MinLevel == 1
MaxLevel == 5

\* mutant: the level itself as the index
level_to_start_index_plain(level) == Max2(MinLevel, Min2(MaxLevel, level))

\* max(1, min(5, int(level))) - 1
level_to_start_index(level) == Max2(MinLevel, Min2(MaxLevel, level)) - 1

\* mutant: the level picks the first rung of a target search too
start_idx_by_level(level, target) == level_to_start_index(level)

\* compress_pdfs: the starting preset index
start_idx(level, target) ==
    IF target = NoTarget THEN level_to_start_index(level) ELSE 0

\* compress_pdf_auto: max(0, min(start_index, last_idx))
clamp_index(start_index) == Max2(0, Min2(start_index, NumPresets - 1))

\* mutant: an output of exactly the target size does not end the search
search_stops_below(new, target, cur_idx) ==
    new < target[1] \/ cur_idx >= NumPresets - 1

\* the loop's exit test after an attempt of size new at rung cur_idx
search_stops(new, target, cur_idx) ==
    new <= target[1] \/ cur_idx >= NumPresets - 1

\* (i / total) * 100, as the fraction num/den, with the message kind
Progress(i, total, what) == [num |-> i * 100, den |-> total, what |-> what]

Sizes == {TargetSize, TargetSize + 1}
Targets == {NoTarget, <<TargetSize>>}
Levels == (MinLevel - LevelSlack)..(MaxLevel + LevelSlack)

InitCompress ==
    /\ c_n \in 0..MaxFiles
    /\ c_nout \in 0..MaxFiles
    /\ c_level \in Levels
    /\ c_target \in Targets
    /\ c_pc = "start"
    /\ c_i = 0 /\ c_start = 0 /\ c_src = FALSE /\ c_gs = <<>> /\ c_cur = 0
    /\ c_used = 0 /\ c_calls = <<>> /\ c_out = <<>> /\ c_results = <<>>
    /\ c_progress = <<>> /\ c_error = NoError
    /\ IdleView /\ IdleParse /\ IdleSplit /\ IdleMerge /\ IdleProtect
    /\ IdleOrder /\ IdleBatch
    /\ IdleReorder
    /\ IdleDest

UnchangedByCompress ==
    UNCHANGED <<viewVars, parseVars, splitVars, mergeVars, protectVars,
                orderVars, batchVars, reorderVars, destVars>>

\* compress_pdfs up to its loop
CompressStart ==
    /\ c_pc = "start"
    /\ IF c_n # c_nout
       THEN /\ c_error' = MergeError("LengthMismatch", 0)
            /\ c_pc' = "done"
            /\ UNCHANGED c_start
       ELSE IF c_n = 0
       THEN /\ c_pc' = "done"
            /\ UNCHANGED <<c_error, c_start>>
       ELSE /\ c_start' = start_idx(c_level, c_target)
            /\ c_pc' = "file"
            /\ UNCHANGED c_error
    /\ UNCHANGED <<c_n, c_nout, c_level, c_target, c_i, c_src, c_gs, c_cur,
                   c_used, c_calls, c_out, c_results, c_progress>>
    /\ UnchangedByCompress

\* the loop of compress_pdfs enters compress_pdf_auto for the next source,
\* which exists or not and which Ghostscript would compress to gs[rung]
FileBegin(exists, gs) ==
    /\ c_pc = "file"
    /\ c_src' = exists
    /\ c_gs' = gs
    /\ c_calls' = <<>>
    /\ c_out' = <<>>
    /\ IF ~exists
       THEN /\ c_error' = MergeError("FileNotFound", c_i + 1)
            /\ c_progress' = c_progress \o <<Progress(c_i, c_n, "start"),
                                             Progress(c_i, c_n, "error")>>
            /\ c_pc' = "done"
            /\ UNCHANGED <<c_cur, c_used>>
       ELSE /\ c_cur' = clamp_index(c_start)
            /\ c_used' = clamp_index(c_start)
            /\ c_progress' = Append(c_progress, Progress(c_i, c_n, "start"))
            /\ c_pc' = "gs"
            /\ UNCHANGED c_error
    /\ UNCHANGED <<c_n, c_nout, c_level, c_target, c_i, c_start, c_results>>
    /\ UnchangedByCompress

\* mutant: a failed attempt removes what the earlier attempts wrote
GsRun_rolls_back(ran) ==
    /\ c_pc = "gs"
    /\ c_calls' = Append(c_calls, c_cur)
    /\ c_used' = c_cur
    /\ IF ~ran
       THEN /\ c_error' = MergeError("PDFCompressError", c_i + 1)
            /\ c_progress' = Append(c_progress, Progress(c_i, c_n, "error"))
            /\ c_pc' = "done"
            /\ c_out' = <<>>
            /\ UNCHANGED <<c_cur, c_results, c_i>>
       ELSE /\ c_out' = <<[rung |-> c_cur, size |-> c_gs[c_cur]]>>
            /\ UNCHANGED c_error
            /\ IF c_target # NoTarget /\ ~search_stops(c_gs[c_cur], c_target, c_cur)
               THEN /\ c_cur' = c_cur + 1
                    /\ UNCHANGED <<c_results, c_progress, c_i, c_pc>>
               ELSE /\ c_results' = Append(c_results,
                            [setting |-> c_cur, new |-> c_gs[c_cur]])
                    /\ c_progress' = Append(c_progress, Progress(c_i + 1, c_n, "done"))
                    /\ c_i' = c_i + 1
                    /\ c_pc' = IF c_i + 1 = c_n THEN "done" ELSE "file"
                    /\ UNCHANGED c_cur
    /\ UNCHANGED <<c_n, c_nout, c_level, c_target, c_start, c_src, c_gs>>
    /\ UnchangedByCompress

\* one compress_one_pdf call at cur_idx and what follows it up to the next
\* call: Ghostscript fails (ran = FALSE) and the batch raises, or the search
\* goes on to the next rung, or compress_pdf_auto returns its result
GsRun(ran) ==
    /\ c_pc = "gs"
    /\ c_calls' = Append(c_calls, c_cur)
    /\ c_used' = c_cur
    /\ IF ~ran
       THEN /\ c_error' = MergeError("PDFCompressError", c_i + 1)
            /\ c_progress' = Append(c_progress, Progress(c_i, c_n, "error"))
            /\ c_pc' = "done"
            /\ UNCHANGED <<c_out, c_cur, c_results, c_i>>
       ELSE /\ c_out' = <<[rung |-> c_cur, size |-> c_gs[c_cur]]>>
            /\ UNCHANGED c_error
            /\ IF c_target # NoTarget /\ ~search_stops(c_gs[c_cur], c_target, c_cur)
               THEN /\ c_cur' = c_cur + 1
                    /\ UNCHANGED <<c_results, c_progress, c_i, c_pc>>
               ELSE /\ c_results' = Append(c_results,
                            [setting |-> c_cur, new |-> c_gs[c_cur]])
                    /\ c_progress' = Append(c_progress, Progress(c_i + 1, c_n, "done"))
                    /\ c_i' = c_i + 1
                    /\ c_pc' = IF c_i + 1 = c_n THEN "done" ELSE "file"
                    /\ UNCHANGED c_cur
    /\ UNCHANGED <<c_n, c_nout, c_level, c_target, c_start, c_src, c_gs>>
    /\ UnchangedByCompress

NextCompress ==
    \/ CompressStart
    \/ \E exists \in BOOLEAN, gs \in [0..(NumPresets - 1) -> Sizes] :
           FileBegin(exists, gs)
    \/ \E ran \in BOOLEAN : GsRun(ran)

SpecCompress == InitCompress /\ [][NextCompress]_vars

\* compress_pdf_auto has just returned the result of the current source
FileCompressed ==
    /\ c_pc \in {"file", "done"} /\ c_error = NoError
    /\ c_i >= 1 /\ c_calls # <<>>

\* C9: with a target size the rungs are tried in ladder order from rung 0
\* whatever the level, at most NumPresets times for a file; the search stops
\* at the smallest rung whose output is <= target, or at the last rung when
\* there is none, and that last tried rung is the reported preset.
C9_TargetSearch ==
    c_target # NoTarget =>
        /\ Len(c_calls) <= NumPresets
        /\ \A j \in 1..Len(c_calls) : c_calls[j] = j - 1
        /\ FileCompressed =>
              LET last == c_calls[Len(c_calls)]
                  fits == {r \in 0..(NumPresets - 1) : c_gs[r] <= c_target[1]}
              IN  /\ IF fits = {} THEN last = NumPresets - 1
                      ELSE last \in fits /\ \A r \in fits : last <= r
                  /\ c_results[c_i] = [setting |-> last, new |-> c_gs[last]]
                  /\ c_out = <<[rung |-> last, size |-> c_gs[last]]>>

\* level 5, target given: rungs 0 and 1 are too big, rung 2 fits and ends the
\* search although rung 3 would be too big again
C9_Witness ==
    /\ FileCompressed
    /\ c_target = <<TargetSize>>
    /\ c_level = 5
    /\ c_calls = <<0, 1, 2>>
    /\ c_gs[3] > TargetSize
    /\ c_results[c_i].setting = 2

\* C10: without a target size Ghostscript is invoked exactly once for a file,
\* at rung clamp(level, 1, 5) - 1: level 1 the least compressed rung, level 5
\* the most compressed one, and no lower level selects a more compressed rung.
C10_LevelSelectsRung ==
    c_target = NoTarget =>
        /\ Len(c_calls) <= 1
        /\ c_calls # <<>> =>
              /\ c_calls[1] = (IF c_level < 1 THEN 0
                               ELSE IF c_level > 5 THEN NumPresets - 1
                               ELSE c_level - 1)
              /\ \A l \in Levels :
                     l <= c_level => level_to_start_index(l) <= c_calls[1]
        /\ FileCompressed =>
              /\ Len(c_calls) = 1
              /\ c_results[c_i].setting = c_calls[1]

\* level 2 and no target: one call, at rung 1
C10_Witness ==
    /\ FileCompressed
    /\ c_target = NoTarget
    /\ c_level = 2
    /\ c_calls = <<1>>
    /\ c_results[c_i].setting = 1

(***************************************************************************)
(* SpecProtect: the password tab.  execute_password validates the form and *)
(* starts a worker that hands every file of the list to set_pdf_password   *)
(* or remove_pdf_password.                                                 *)
(***************************************************************************)
\* UserAccessPermissions(-1): every member of pypdf's permission flag
AllPermissions ==
    {"R1", "R2", "PRINT", "MODIFY", "EXTRACT", "ADD_OR_MODIFY", "R7", "R8",
     "FILL_FORM_FIELDS", "EXTRACT_TEXT_AND_GRAPHICS", "ASSEMBLE_DOC",
     "PRINT_TO_REPRESENTATION", "R13_TO_R32"}
\* the members cleared for forbid_copy and for forbid_print
CopyBits == {"EXTRACT", "EXTRACT_TEXT_AND_GRAPHICS"}
PrintBits == {"PRINT", "PRINT_TO_REPRESENTATION"}

\* a document on disk
Unreadable ==
    [kind |-> "unreadable", npages |-> 0, user |-> <<>>, owner |-> <<>>]
PlainDoc(n) == [kind |-> "plain", npages |-> n, user |-> <<>>, owner |-> <<>>]
LockedDoc(n, user, owner) ==
    [kind |-> "encrypted", npages |-> n, user |-> user, owner |-> owner]
\* reader.pages
pages(src) == [k \in 1..src.npages |-> k]
\* reader.is_encrypted
is_encrypted(src) == src.kind = "encrypted"
\* reader.decrypt(password): 0 when neither password matches
decrypt(src, password) ==
    IF password = src.user THEN 1 ELSE IF password = src.owner THEN 2 ELSE 0
\* PdfReader(str(src)) succeeds and reader.pages can be read without a
\* password: the reader opens a document whose user password is empty
pages_readable(src) ==
    \/ src.kind = "plain"
    \/ (src.kind = "encrypted" /\ src.user = <<>>)

\* what a call left at its out_path
NoOut ==
    [written |-> FALSE, encrypted |-> FALSE, pages |-> <<>>, user |-> <<>>,
     owner |-> <<>>, perms |-> {}]
EncryptedOut(pp, user, owner, perms) ==
    [written |-> TRUE, encrypted |-> TRUE, pages |-> pp, user |-> user,
     owner |-> owner, perms |-> perms]
PlainOut(pp) ==
    [written |-> TRUE, encrypted |-> FALSE, pages |-> pp, user |-> <<>>,
     owner |-> <<>>, perms |-> {}]
PwOk(out) == [ok |-> TRUE, err |-> None, out |-> out]
PwRaise(e) == [ok |-> FALSE, err |-> e, out |-> NoOut]

\* the flags as given: no view-lock override
effective_flags_as_given(forbid_copy, forbid_print, require_open_password) ==
    [copy |-> forbid_copy, print |-> forbid_print]

\* forbid_copy and forbid_print after "if require_open_password"
effective_flags(forbid_copy, forbid_print, require_open_password) ==
    IF require_open_password THEN [copy |-> TRUE, print |-> TRUE]
    ELSE [copy |-> forbid_copy, print |-> forbid_print]

\* forbid_print clearing the copy members as well
permissions_print_clears_copy(flags) ==
    (AllPermissions \ (IF flags.copy THEN CopyBits ELSE {}))
        \ (IF flags.print THEN PrintBits \cup CopyBits ELSE {})

\* perms: everything, less the copy members, less the print members
permissions(flags) ==
    (AllPermissions \ (IF flags.copy THEN CopyBits ELSE {}))
        \ (IF flags.print THEN PrintBits ELSE {})

user_password(owner_password, require_open_password) ==
    IF require_open_password THEN owner_password ELSE <<>>

\* set_pdf_password; a holds owner_password (as password), forbid_copy,
\* forbid_print and require_open_password; can_open: out_path's folder and
\* file can be created
set_pdf_password(src, a, can_open) ==
    IF ~pages_readable(src) \/ ~can_open THEN PwRaise("PDFPasswordError")
    ELSE PwOk(EncryptedOut(
            pages(src),
            user_password(a.password, a.require_open_password),
            a.password,
            permissions(effective_flags(a.forbid_copy, a.forbid_print,
                                        a.require_open_password))))

\* the wrong-password test left out
password_rejected_never(src, password) == FALSE

\* result == 0
password_rejected(src, password) == decrypt(src, password) = 0

\* remove_pdf_password
remove_pdf_password(src, password, can_open) ==
    IF src.kind = "unreadable" THEN PwRaise("PDFPasswordError")
    ELSE IF ~is_encrypted(src) THEN PwRaise("NotEncrypted")
    ELSE IF password_rejected(src, password) THEN PwRaise("WrongPassword")
    ELSE IF ~can_open THEN PwRaise("PDFPasswordError")
    ELSE PwOk(PlainOut(pages(src)))

Started(args) == [warning |-> None, args |-> args]
Warned(w) == [warning |-> w, args |-> NoArgs]

\* the flag test left out
no_restriction_ignored(forbid_copy, forbid_print) == FALSE

\* not (app.forbid_copy.get() or app.forbid_print.get())
no_restriction(forbid_copy, forbid_print) == ~(forbid_copy \/ forbid_print)

\* _execute_set up to the start of its worker
execute_set(mode, entry, forbid_copy, forbid_print) ==
    LET password == strip(entry)
    IN  IF mode = "view"
        THEN IF password = <<>> THEN Warned("EmptyPassword")
             ELSE Started(Args(password, FALSE, FALSE, TRUE))
        ELSE IF password = <<>> THEN Warned("EmptyPassword")
             ELSE IF no_restriction(forbid_copy, forbid_print)
                  THEN Warned("NoRestrictionSelected")
                  ELSE Started(Args(password, forbid_copy, forbid_print, FALSE))

\* _execute_remove up to the start of its worker
execute_remove(entry) ==
    LET password == strip(entry)
    IN  IF password = <<>> THEN Warned("EmptyPassword")
        ELSE Started(Args(password, FALSE, FALSE, FALSE))

\* execute_password
execute_password(files, op, mode, entry, forbid_copy, forbid_print) ==
    IF files = <<>> THEN Warned("NoFiles")
    ELSE IF op = "set" THEN execute_set(mode, entry, forbid_copy, forbid_print)
    ELSE execute_remove(entry)

\* the engine call of the worker of the operation
engine(op, src, args, can_open) ==
    IF op = "set"
    THEN set_pdf_password(src, args, can_open)
    ELSE remove_pdf_password(src, args.password, can_open)

\* int((i + 1) / len(app.password_files) * 100), i + 1 given as k
percent(k, total) == (k * 100) \div total

PwEntries == {<<>>, <<" ">>, <<"a", " ">>, <<"b">>}
PwDocs ==
    {Unreadable} \cup {PlainDoc(n) : n \in 1..MaxPwPages}
        \cup {LockedDoc(MaxPwPages, <<>>, <<"a">>),
              LockedDoc(MaxPwPages, <<"a">>, <<"a">>)}

InitProtect ==
    /\ pw_files \in SeqsUpTo(PwDocs, MaxPwFiles)
    /\ pw_op \in {"set", "remove"}
    /\ pw_mode \in {"view", "restrict"}
    /\ pw_entry \in PwEntries
    /\ pw_fc \in BOOLEAN
    /\ pw_fp \in BOOLEAN
    /\ pw_pc = "ready"
    /\ pw_args = NoArgs /\ pw_i = 0 /\ pw_outs = <<>> /\ pw_failed = <<>>
    /\ pw_success = 0 /\ pw_progress = <<>> /\ pw_warning = None
    /\ IdleView /\ IdleParse /\ IdleSplit /\ IdleMerge /\ IdleCompress
    /\ IdleOrder /\ IdleBatch
    /\ IdleReorder
    /\ IdleDest

UnchangedByProtect ==
    UNCHANGED <<viewVars, parseVars, splitVars, mergeVars, compVars, orderVars, batchVars, reorderVars, destVars>>

\* the button: execute_password, then _execute_set or _execute_remove
Execute ==
    LET r == execute_password(pw_files, pw_op, pw_mode, pw_entry, pw_fc, pw_fp)
    IN  /\ pw_pc = "ready"
        /\ pw_warning' = r.warning
        /\ pw_args' = r.args
        /\ pw_pc' = IF r.warning = None THEN "running" ELSE "rejected"
        /\ UNCHANGED <<pw_files, pw_op, pw_mode, pw_entry, pw_fc, pw_fp, pw_i,
                       pw_outs, pw_failed, pw_success, pw_progress>>
        /\ UnchangedByProtect

\* one pass of the worker's loop; confirm is app.confirm_overwrite(out_path)
WorkerFile(confirm, can_open) ==
    LET i == pw_i + 1
        r == engine(pw_op, pw_files[i], pw_args, can_open)
    IN  /\ pw_pc = "running"
        /\ pw_i < Len(pw_files)
        /\ pw_i' = i
        /\ IF ~confirm
           THEN /\ pw_failed' = Append(pw_failed, [file |-> i, why |-> "skip"])
                /\ pw_outs' = Append(pw_outs, NoOut)
                /\ UNCHANGED <<pw_success, pw_progress>>
           ELSE IF r.ok
           THEN /\ pw_outs' = Append(pw_outs, r.out)
                /\ pw_success' = pw_success + 1
                /\ pw_progress' =
                       Append(pw_progress, percent(i, Len(pw_files)))
                /\ UNCHANGED pw_failed
           ELSE /\ pw_failed' = Append(pw_failed, [file |-> i, why |-> r.err])
                /\ pw_outs' = Append(pw_outs, NoOut)
                /\ UNCHANGED <<pw_success, pw_progress>>
        /\ UNCHANGED <<pw_files, pw_op, pw_mode, pw_entry, pw_fc, pw_fp,
                       pw_pc, pw_args, pw_warning>>
        /\ UnchangedByProtect

\* _finish
WorkerFinish ==
    /\ pw_pc = "running"
    /\ pw_i = Len(pw_files)
    /\ pw_pc' = IF pw_success > 0 THEN "completed" ELSE "failed"
    /\ UNCHANGED <<pw_files, pw_op, pw_mode, pw_entry, pw_fc, pw_fp, pw_args,
                   pw_i, pw_outs, pw_failed, pw_success, pw_progress,
                   pw_warning>>
    /\ UnchangedByProtect

NextProtect ==
    \/ Execute
    \/ \E confirm \in BOOLEAN, can_open \in BOOLEAN :
           WorkerFile(confirm, can_open)
    \/ WorkerFinish

SpecProtect == InitProtect /\ [][NextProtect]_vars

\* the worker of a set batch runs or has run
SetStarted == pw_op = "set" /\ pw_pc \in {"running", "completed", "failed"}
\* file i of the batch was recorded as failed or skipped for this reason
FailedFor(i, why) ==
    \E j \in 1..Len(pw_failed) : pw_failed[j] = [file |-> i, why |-> why]

\* what C11 says of an output
ViewLockedOut(out, password) ==
    /\ out.encrypted
    /\ out.perms \cap (CopyBits \cup PrintBits) = {}
    /\ out.owner = password
    /\ out.user = out.owner

\* C11: protecting with a view lock (require_open_password) clears the
\* extract/copy and the print permission bits whatever forbid_copy and
\* forbid_print are, and makes the user password the owner password: every
\* output a view-lock batch has written is such a document (the form passes
\* both flags as False), and so is the output of set_pdf_password for the
\* files of the batch under every other value of the two flags.
C11_ViewLocked ==
    (SetStarted /\ pw_args.require_open_password) =>
        /\ \A i \in 1..Len(pw_outs) :
               pw_outs[i].written => ViewLockedOut(pw_outs[i], pw_args.password)
        /\ \A i \in 1..Len(pw_files) :
           \A forbid_copy \in BOOLEAN, forbid_print \in BOOLEAN :
               LET r == set_pdf_password(
                            pw_files[i],
                            Args(pw_args.password, forbid_copy, forbid_print,
                                 TRUE),
                            TRUE)
               IN  r.ok => ViewLockedOut(r.out, pw_args.password)

\* a view-lock batch with password "a" has written its file
C11_Witness ==
    /\ pw_op = "set" /\ pw_mode = "view"
    /\ pw_args = Args(<<"a">>, FALSE, FALSE, TRUE)
    /\ pw_pc = "completed"
    /\ pw_outs = <<EncryptedOut(<<1, 2>>, <<"a">>, <<"a">>,
                                AllPermissions \ (CopyBits \cup PrintBits))>>

\* what C12 says of an output
RestrictedOut(out, password, forbid_copy, forbid_print) ==
    /\ out.encrypted
    /\ out.user = <<>>
    /\ out.owner = password
    /\ (out.perms \cap CopyBits = {}) <=> forbid_copy
    /\ (out.perms \cap PrintBits = {}) <=> forbid_print
    /\ forbid_copy \/ CopyBits \subseteq out.perms
    /\ forbid_print \/ PrintBits \subseteq out.perms
    /\ AllPermissions \ (CopyBits \cup PrintBits) \subseteq out.perms

\* C12: protecting with a copy/print restriction (no require_open_password)
\* leaves the user password empty and clears, from the allow-everything
\* mask, the extract/copy members exactly when forbid_copy and the print
\* members exactly when forbid_print; every other member stays set.  Checked
\* of every output a restriction batch has written and of set_pdf_password
\* on the files of the batch for all four values of the two flags.
C12_Restricted ==
    (SetStarted /\ ~pw_args.require_open_password) =>
        /\ \A i \in 1..Len(pw_outs) :
               pw_outs[i].written =>
                   RestrictedOut(pw_outs[i], pw_args.password,
                                 pw_args.forbid_copy, pw_args.forbid_print)
        /\ \A i \in 1..Len(pw_files) :
           \A forbid_copy \in BOOLEAN, forbid_print \in BOOLEAN :
               LET r == set_pdf_password(
                            pw_files[i],
                            Args(pw_args.password, forbid_copy, forbid_print,
                                 FALSE),
                            TRUE)
               IN  r.ok => RestrictedOut(r.out, pw_args.password,
                                         forbid_copy, forbid_print)

\* a restriction batch forbidding print only has written its file
C12_Witness ==
    /\ pw_op = "set" /\ pw_mode = "restrict"
    /\ pw_args = Args(<<"a">>, FALSE, TRUE, FALSE)
    /\ pw_pc = "completed"
    /\ pw_outs = <<EncryptedOut(<<1, 2>>, <<>>, <<"a">>,
                                AllPermissions \ PrintBits)>>

\* the form asks for a restriction and neither flag is set
NoFlagIntent ==
    /\ pw_pc # "ready" /\ pw_files # <<>>
    /\ pw_op = "set" /\ pw_mode # "view" /\ ~pw_fc /\ ~pw_fp

\* C13 as stated: a restriction intent with neither flag set always fails
\* with NoRestrictionSelected and writes no output.
C13_Original ==
    NoFlagIntent =>
        /\ pw_warning = "NoRestrictionSelected"
        /\ \A i \in 1..Len(pw_outs) : ~pw_outs[i].written

\* C13, amended: a restriction intent with neither flag set is rejected by
\* the form handler before any file is touched and writes no output; the
\* warning is NoRestrictionSelected when the stripped password is not empty
\* and the empty-password warning otherwise.  The rejection is the
\* handler's: set_pdf_password given both flags False does not fail, it
\* writes an output with the allow-everything mask and no user password.
C13_NoRestriction ==
    NoFlagIntent =>
        /\ pw_pc = "rejected" /\ pw_i = 0 /\ pw_outs = <<>>
        /\ pw_warning = IF strip(pw_entry) = <<>> THEN "EmptyPassword"
                        ELSE "NoRestrictionSelected"
        /\ \A i \in 1..Len(pw_files) :
               LET r == set_pdf_password(
                            pw_files[i],
                            Args(strip(pw_entry), FALSE, FALSE, FALSE),
                            TRUE)
               IN  pages_readable(pw_files[i]) =>
                       /\ r.ok /\ r.out.written
                       /\ r.out.perms = AllPermissions
                       /\ r.out.user = <<>>

\* password "a ", restriction mode, neither flag: rejected
C13_Witness ==
    /\ NoFlagIntent
    /\ pw_entry = <<"a", " ">>
    /\ pw_files = <<PlainDoc(2)>>
    /\ pw_warning = "NoRestrictionSelected"
    /\ pw_pc = "rejected"

\* C14: remove_pdf_password fails with NotEncrypted on a document that
\* reports no encryption and with WrongPassword when decrypt rejects the
\* password, and leaves no output in either case; otherwise, when the output
\* can be created, it writes an unencrypted document with every page of the
\* source in order.  Of every file a remove batch has gone through: its
\* out_path and its entry in the failed list are as remove_pdf_password
\* decides, unless the overwrite was declined (skip).
C14_Unprotect ==
    (pw_op = "remove") =>
        \A i \in 1..pw_i :
            LET src == pw_files[i]
                out == pw_outs[i]
            IN  /\ src.kind = "plain" =>
                       /\ out = NoOut
                       /\ FailedFor(i, "NotEncrypted") \/ FailedFor(i, "skip")
                /\ (src.kind = "encrypted"
                      /\ decrypt(src, pw_args.password) = 0) =>
                       /\ out = NoOut
                       /\ FailedFor(i, "WrongPassword") \/ FailedFor(i, "skip")
                /\ (src.kind = "encrypted"
                      /\ decrypt(src, pw_args.password) # 0) =>
                       \/ /\ out = PlainOut([k \in 1..src.npages |-> k])
                          /\ ~out.encrypted
                          /\ ~\E why \in {"skip", "PDFPasswordError",
                                          "NotEncrypted", "WrongPassword"} :
                                 FailedFor(i, why)
                       \/ /\ out = NoOut
                          /\ FailedFor(i, "PDFPasswordError")
                                 \/ FailedFor(i, "skip")

\* a remove batch with password "a": the plain file failed NotEncrypted, the
\* locked one was written with both its pages
C14_Witness ==
    /\ pw_op = "remove" /\ pw_pc = "completed"
    /\ pw_args.password = <<"a">>
    /\ pw_files = <<PlainDoc(1), LockedDoc(MaxPwPages, <<"a">>, <<"a">>)>>
    /\ pw_failed = <<[file |-> 1, why |-> "NotEncrypted"]>>
    /\ pw_outs = <<NoOut, PlainOut(<<1, 2>>)>>

(***************************************************************************)
(* SpecOrder: the thumbnail view of a loaded document under presses, drag  *)
(* steps, releases and the four move buttons, remembering for the last     *)
(* operation its name, its position argument and the view before it.       *)
(***************************************************************************)
\* selected_pages after _on_press on page_index
press_selection(selected, page_index, ctrl_pressed) ==
    IF ctrl_pressed
    THEN IF page_index \in selected THEN selected \ {page_index}
         ELSE selected \cup {page_index}
    ELSE IF page_index \in selected THEN selected ELSE {page_index}

\* the move buttons of the reorder tab
MoveOps == {"up", "down", "top", "bottom"}
move_selected(op, items, selected) ==
    CASE op = "up" -> move_selected_up(items, selected)
      [] op = "down" -> move_selected_down(items, selected)
      [] op = "top" -> move_selected_to_top(items, selected)
      [] op = "bottom" -> move_selected_to_bottom(items, selected)

InitOrder ==
    /\ \E n \in 0..MaxOrderPages :
          /\ doc = <<n>>
          /\ page_rotations = [i \in 0..(n - 1) |-> 0]
          /\ page_items = [k \in 1..n |-> k - 1]
          /\ selected_pages = IF n > 0 THEN {0} ELSE {}
    /\ dragging = NoDrag
    /\ o_op = "load_pdf" /\ o_target = -1 /\ o_before = Snapshot(<<>>, {}, <<>>)
    /\ o_press = <<>> /\ o_inside = TRUE /\ o_out = NoFile
    /\ IdleParse /\ IdleSplit /\ IdleMerge /\ IdleCompress /\ IdleProtect
    /\ IdleBatch
    /\ IdleReorder
    /\ IdleDest

\* the positions from the first to the last selected page of an order
Span(order, selected) ==
    {i \in 0..(Len(order) - 1) :
        \E a, b \in 0..(Len(order) - 1) :
            /\ order[a + 1] \in selected /\ order[b + 1] \in selected
            /\ a <= i /\ i <= b}

\* the operation now taking place, its argument and the view it finds; for
\* a drag gesture also the order at its press and whether every motion of
\* it so far had its target inside the span of the selected pages
Recorded(op, target, out) ==
    /\ o_op' = op
    /\ o_target' = target
    /\ o_before' = Snapshot(page_items, selected_pages, page_rotations)
    /\ o_press' = IF op = "press" THEN page_items
                  ELSE IF op \in {"motion", "release"} THEN o_press
                  ELSE <<>>
    /\ o_inside' = IF op = "motion"
                   THEN o_inside /\ target \in Span(page_items, selected_pages)
                   ELSE IF op = "release" THEN o_inside
                   ELSE TRUE
    /\ o_out' = out

Remember(op, target) == Recorded(op, target, NoFile)

UnchangedByOrder ==
    UNCHANGED <<parseVars, splitVars, mergeVars, compVars, protectVars,
                batchVars, reorderVars, destVars>>

\* _on_press on the item at display position idx
OrderPress(idx, ctrl_pressed) ==
    /\ dragging = NoDrag
    /\ idx \in Positions(page_items)
    /\ selected_pages' =
           press_selection(selected_pages, Item(page_items, idx), ctrl_pressed)
    /\ dragging' = IF ctrl_pressed THEN NoDrag
                   ELSE <<Item(page_items, idx), idx>>
    /\ Remember(IF ctrl_pressed THEN "ctrl_press" ELSE "press", idx)
    /\ UNCHANGED <<doc, page_items, page_rotations>>
    /\ UnchangedByOrder

\* _on_motion while a drag is in progress, nearest_index(y) = target_idx
OrderMotion(target_idx) ==
    /\ dragging # NoDrag
    /\ target_idx \in Positions(page_items)
    /\ page_items' = on_motion(page_items, selected_pages, dragging, target_idx)
    /\ Remember("motion", target_idx)
    /\ UNCHANGED <<doc, selected_pages, page_rotations, dragging>>
    /\ UnchangedByOrder

\* _on_release
OrderRelease ==
    /\ dragging # NoDrag
    /\ dragging' = NoDrag
    /\ Remember("release", -1)
    /\ UNCHANGED <<doc, page_items, selected_pages, page_rotations>>
    /\ UnchangedByOrder

\* one of the four move buttons
OrderMove(op) ==
    /\ dragging = NoDrag
    /\ page_items' = move_selected(op, page_items, selected_pages)
    /\ Remember(op, -1)
    /\ UNCHANGED <<doc, selected_pages, page_rotations, dragging>>
    /\ UnchangedByOrder

NextOrder ==
    \/ \E idx \in 0..(MaxOrderPages - 1), ctrl \in BOOLEAN : OrderPress(idx, ctrl)
    \/ \E target_idx \in 0..(MaxOrderPages - 1) : OrderMotion(target_idx)
    \/ OrderRelease
    \/ \E op \in MoveOps : OrderMove(op)

SpecOrder == InitOrder /\ [][NextOrder]_vars

\* the display positions (zero-based) of the pages of S in an order
PositionsOf(order, S) == {i \in 0..(Len(order) - 1) : order[i + 1] \in S}
PositionOf(order, p) == CHOOSE i \in 0..(Len(order) - 1) : order[i + 1] = p
Consecutive(P) ==
    P = {} \/ \E lo \in P : P = lo..(lo + Cardinality(P) - 1)
\* the pages of S in the order they have in an order
Among(order, S) == SelectSeq(order, LAMBDA p : p \in S)
Pages(order) == {order[i] : i \in 1..Len(order)}
\* the last operation left order, selection and rotation as they were
NothingChanged ==
    /\ page_items = o_before.items
    /\ selected_pages = o_before.selected
    /\ page_rotations = o_before.rotations

\* the last operation was a one-step move of two or more selected pages
\* that were not contiguous and not at the boundary of the direction
ScatteredMove ==
    /\ o_op \in {"up", "down"}
    /\ Cardinality(o_before.selected) >= 2
    /\ ~Consecutive(PositionsOf(o_before.items, o_before.selected))
    /\ o_op = "up" => 0 \notin PositionsOf(o_before.items, o_before.selected)
    /\ o_op = "down" =>
           (Len(o_before.items) - 1)
               \notin PositionsOf(o_before.items, o_before.selected)

\* C15 as stated: after such a move all selected pages occupy consecutive
\* display positions.
C15_Original ==
    ScatteredMove => Consecutive(PositionsOf(page_items, selected_pages))

\* C15, amended: after one move_selected_up or move_selected_down of two or
\* more selected pages that are not contiguous and not at the boundary,
\* every selected page sits exactly one display position further in the move
\* direction; the selected pages keep their distances and so do not occupy
\* consecutive positions.
C15_EachMovesOne ==
    ScatteredMove =>
        /\ \A p \in o_before.selected :
               PositionOf(page_items, p) =
                   PositionOf(o_before.items, p)
                       + (IF o_op = "up" THEN -1 ELSE 1)
        /\ ~Consecutive(PositionsOf(page_items, selected_pages))

\* [0,1,2,3] with pages 1 and 3 selected, moved up: [1,0,3,2]
C15_Witness ==
    /\ o_op = "up"
    /\ o_before.items = <<0, 1, 2, 3>>
    /\ o_before.selected = {1, 3}
    /\ page_items = <<1, 0, 3, 2>>

\* C16: each of the four moves keeps the display order of the selected pages
\* among themselves and of the non-selected pages among themselves, for
\* contiguous and scattered selections.
C16_RelativeOrder ==
    o_op \in MoveOps =>
        /\ selected_pages = o_before.selected
        /\ Among(page_items, selected_pages)
               = Among(o_before.items, selected_pages)
        /\ Among(page_items, Pages(page_items) \ selected_pages)
               = Among(o_before.items, Pages(page_items) \ selected_pages)

\* [2,0,3,1] with pages 0 and 1 selected (scattered), moved to the bottom
C16_Witness ==
    /\ o_op = "bottom"
    /\ o_before.items = <<2, 0, 3, 1>>
    /\ o_before.selected = {0, 1}
    /\ page_items = <<2, 3, 0, 1>>

\* C17: from order [0,1,2,3] with pages 0 and 2 selected, one
\* move_selected_down gives exactly [1,0,3,2].
C17_Fixture ==
    ( /\ o_op = "down"
      /\ o_before.items = <<0, 1, 2, 3>>
      /\ o_before.selected = {0, 2} ) =>
        page_items = <<1, 0, 3, 2>>

C17_Witness ==
    /\ o_op = "down"
    /\ o_before.items = <<0, 1, 2, 3>>
    /\ o_before.selected = {0, 2}
    /\ page_items = <<1, 0, 3, 2>>
    /\ selected_pages = {0, 2}

\* the selected pages are the first / the last pages of the order
SelectedPrefix(order, S) == PositionsOf(order, S) = 0..(Cardinality(S) - 1)
SelectedSuffix(order, S) ==
    PositionsOf(order, S) = (Len(order) - Cardinality(S))..(Len(order) - 1)

\* C18: move up changes nothing when a selected page is at position 0, move
\* down nothing when a selected page is at the last position, to-top and
\* to-bottom nothing when the selected pages already are the prefix / the
\* suffix of the order, and no move changes anything when nothing is
\* selected.
C18_BoundaryNoOp ==
    LET P == PositionsOf(o_before.items, o_before.selected)
    IN  /\ (o_op = "up" /\ 0 \in P) => NothingChanged
        /\ (o_op = "down" /\ (Len(o_before.items) - 1) \in P) => NothingChanged
        /\ (o_op = "top"
              /\ SelectedPrefix(o_before.items, o_before.selected)) =>
               NothingChanged
        /\ (o_op = "bottom"
              /\ SelectedSuffix(o_before.items, o_before.selected)) =>
               NothingChanged
        /\ (o_op \in MoveOps /\ o_before.selected = {}) => NothingChanged

\* [1,0,2,3] with pages 1 and 2 selected, moved up: page 1 is at the top
C18_Witness ==
    /\ o_op = "up"
    /\ o_before.items = <<1, 0, 2, 3>>
    /\ o_before.selected = {1, 2}
    /\ page_items = <<1, 0, 2, 3>>

\* the last operation was a drag step and pages were selected
DragStep == o_op = "motion" /\ o_before.selected # {}
\* its target lay inside the span of the selection
InsideSpan ==
    LET P == PositionsOf(o_before.items, o_before.selected)
    IN  \E lo \in P, hi \in P : lo <= o_target /\ o_target <= hi

\* C19: a drag step whose target position lies between the first and the
\* last selected display position, inclusive, leaves order, selection and
\* rotation unchanged.
C19_InsideSpanNoOp ==
    (DragStep /\ InsideSpan) => NothingChanged

\* pages 0 and 2 of [0,1,2,3] selected, dragged onto position 1 between them
C19_Witness ==
    /\ o_op = "motion" /\ o_target = 1
    /\ o_before.items = <<0, 1, 2, 3>>
    /\ o_before.selected = {0, 2}
    /\ page_items = <<0, 1, 2, 3>>
    /\ dragging # NoDrag

\* C20: a drag step with pages selected and a target position t outside the
\* span leaves the selected pages contiguous in their previous order,
\* immediately before the non-selected page that was at position t, and the
\* non-selected pages in their previous order.
C20_BlockBeforeTarget ==
    (DragStep /\ ~InsideSpan) =>
        LET S == o_before.selected
            P == PositionsOf(page_items, S)
            at_t == o_before.items[o_target + 1]
        IN  /\ selected_pages = S
            /\ at_t \notin S
            /\ Consecutive(P)
            /\ Among(page_items, S) = Among(o_before.items, S)
            /\ Among(page_items, Pages(page_items) \ S)
                   = Among(o_before.items, Pages(page_items) \ S)
            /\ \A i \in P : (i + 1) \notin P =>
                   /\ i + 1 < Len(page_items)
                   /\ page_items[i + 2] = at_t

\* pages 0 and 2 of [0,1,2,3] selected, dragged onto position 3: the block
\* lands before page 3
C20_Witness ==
    /\ o_op = "motion" /\ o_target = 3
    /\ o_before.items = <<0, 1, 2, 3>>
    /\ o_before.selected = {0, 2}
    /\ page_items = <<1, 0, 2, 3>>

\* a drag step repeating the target position of the drag step before it
RepeatedDragStep ==
    /\ o_op = "motion" /\ o_op' = "motion"
    /\ o_target' = o_target
\* a drag gesture, under way or just released, all of whose targets so far
\* lay inside the span of the selected pages
GestureInsideSpan == o_op \in {"motion", "release"} /\ o_inside

\* C21: drag steps are idempotent: the same target position applied twice in
\* a row leaves the order as the first application left it; and a drag
\* gesture whose target positions never leave the span of the selected block
\* leaves the order as it was before the gesture.
C21_DragIdempotent ==
    [][ /\ RepeatedDragStep => page_items' = page_items
        /\ GestureInsideSpan' => page_items' = o_press' ]_vars

\* page 0 of [0,1,2,3] dragged onto position 2 twice: the first step gave
\* [1,0,2,3], the second found it so and left it so
C21_Witness ==
    /\ o_op = "motion" /\ o_target = 2
    /\ o_press = <<0, 1, 2, 3>> /\ ~o_inside
    /\ selected_pages = {0}
    /\ o_before.items = <<1, 0, 2, 3>>
    /\ page_items = <<1, 0, 2, 3>>

(***************************************************************************)
(* SpecRotate: SpecOrder on smaller documents, with the two rotate buttons *)
(* and the export of the reorder tab (run_reorder, reorder_pdf).  A page   *)
(* of the written file is [page, angle]: the original page index and the   *)
(* angle it was turned by.                                                 *)
(***************************************************************************)
\* get_page_order
get_page_order(items) == items

\* get_page_rotations
get_page_rotations(rotations) == rotations

\* rotations.get(src_idx, 0) or 0
rotation_of(rotations, src_idx) ==
    IF src_idx \in DOMAIN rotations THEN rotations[src_idx] ELSE 0

\* mutant: the angle is looked up by output position, not by source page
written_page_by_position(order, rotations, i) ==
    [page |-> order[i], angle |-> rotation_of(rotations, i - 1) % 360]

\* the page reorder_pdf adds as i-th (one-based) to the writer
\* (page.rotate turns reader.pages[src_idx] itself and add_page copies it, so
\* a page listed again has been turned once more)
written_page(order, rotations, i) ==
    [page |-> order[i],
     angle |-> (rotation_of(rotations, order[i])
                  * Cardinality({j \in 1..i : order[j] = order[i]})) % 360]

\* mutant: an index equal to the page count passes the range test
reorder_pdf_index_le_count(document, order, rotations) ==
    IF ~document.readable THEN <<"PDFReorderError", NoFile>>
    ELSE IF document.is_encrypted THEN <<"Encrypted", NoFile>>
    ELSE IF document.total_pages = 0 THEN <<"Empty", NoFile>>
    ELSE IF order = <<>> THEN <<"NoOrder", NoFile>>
    ELSE IF \E k \in 1..Len(order) :
                order[k] < 0 \/ order[k] > document.total_pages
         THEN <<"IndexOutOfRange", NoFile>>
    ELSE <<"ok", File([i \in 1..Len(order) |-> written_page(order, rotations, i)])>>

\* <<the error raised or "ok", the pages written to out_path>>
reorder_pdf(document, order, rotations) ==
    IF ~document.readable THEN <<"PDFReorderError", NoFile>>
    ELSE IF document.is_encrypted THEN <<"Encrypted", NoFile>>
    ELSE IF document.total_pages = 0 THEN <<"Empty", NoFile>>
    ELSE IF order = <<>> THEN <<"NoOrder", NoFile>>
    ELSE IF \E k \in 1..Len(order) :
                order[k] < 0 \/ order[k] >= document.total_pages
         THEN <<"IndexOutOfRange", NoFile>>
    ELSE <<"ok", File([i \in 1..Len(order) |-> written_page(order, rotations, i)])>>

\* run_reorder: what it writes to out_path
run_reorder(confirm, document, order, rotations) ==
    IF ~confirm THEN NoFile
    ELSE IF order = <<>> THEN NoFile
    ELSE reorder_pdf(document, order, rotations)[2]

InitRotate ==
    /\ \E n \in 0..MaxRotPages :
          /\ doc = <<n>>
          /\ page_rotations = [i \in 0..(n - 1) |-> 0]
          /\ page_items = [k \in 1..n |-> k - 1]
          /\ selected_pages = IF n > 0 THEN {0} ELSE {}
    /\ dragging = NoDrag
    /\ o_op = "load_pdf" /\ o_target = -1 /\ o_before = Snapshot(<<>>, {}, <<>>)
    /\ o_press = <<>> /\ o_inside = TRUE /\ o_out = NoFile
    /\ IdleParse /\ IdleSplit /\ IdleMerge /\ IdleCompress /\ IdleProtect
    /\ IdleBatch
    /\ IdleReorder
    /\ IdleDest

\* one of the two rotate buttons
OrderRotate(delta_angle) ==
    /\ dragging = NoDrag
    /\ page_rotations' =
           IF selected_pages = {} THEN page_rotations
           ELSE rotate_selected(page_rotations, selected_pages, delta_angle)
    /\ Remember("rotate", delta_angle)
    /\ UNCHANGED <<doc, page_items, selected_pages, dragging>>
    /\ UnchangedByOrder

\* the export button; the file at reorder_pdf_path is the document the view
\* shows, which pypdf may report as encrypted
OrderExport(confirm, encrypted) ==
    /\ dragging = NoDrag
    /\ Recorded("export", -1,
                run_reorder(confirm,
                            [readable |-> TRUE, is_encrypted |-> encrypted,
                             total_pages |-> doc[1]],
                            get_page_order(page_items),
                            get_page_rotations(page_rotations)))
    /\ UNCHANGED viewVars
    /\ UnchangedByOrder

NextRotate ==
    \/ \E idx \in 0..(MaxRotPages - 1), ctrl \in BOOLEAN : OrderPress(idx, ctrl)
    \/ \E target_idx \in 0..(MaxRotPages - 1) : OrderMotion(target_idx)
    \/ OrderRelease
    \/ \E op \in MoveOps : OrderMove(op)
    \/ \E delta_angle \in Deltas : OrderRotate(delta_angle)
    \/ \E confirm \in BOOLEAN, encrypted \in BOOLEAN : OrderExport(confirm, encrypted)

SpecRotate == InitRotate /\ [][NextRotate]_vars

RightAngles == {0, 90, 180, 270}
\* rotate_selected applied n times
RECURSIVE Rotated(_, _, _, _)
Rotated(rotations, selected, delta_angle, n) ==
    IF n = 0 THEN rotations
    ELSE Rotated(rotate_selected(rotations, selected, delta_angle), selected,
                 delta_angle, n - 1)
\* a rotate(-90) directly after a rotate(+90), or the other way round; the
\* selection is the same, since rotating does not change it
InverseRotations ==
    /\ o_op = "rotate" /\ o_op' = "rotate"
    /\ o_target' = -o_target

\* C22: after any sequence of rotate(+90) and rotate(-90) every page's angle
\* is one of 0, 90, 180, 270; four rotate(+90) with the same selection, and
\* rotate(+90) followed by rotate(-90), return every angle to the value it
\* had before.
C22_RightAngles ==
    [][ /\ \A p \in DOMAIN page_rotations' : page_rotations'[p] \in RightAngles
        /\ Rotated(page_rotations', selected_pages', 90, 4) = page_rotations'
        /\ InverseRotations => page_rotations' = o_before.rotations ]_vars

\* page 0 turned by -90 from 0 to 270
C22_Witness ==
    /\ o_op = "rotate" /\ o_target = -90
    /\ selected_pages = {0}
    /\ o_before.rotations[0] = 0
    /\ page_rotations[0] = 270

\* C23: rotate changes the angles of the selected pages only and leaves
\* order and selection unchanged; every press, drag step, release and move
\* leaves the rotation map unchanged; and the page written at output
\* position k of an export is original page order[k], turned by
\* rotation[order[k]].
C23_RotationFollowsPage ==
    /\ o_op = "rotate" =>
           /\ page_items = o_before.items
           /\ selected_pages = o_before.selected
           /\ \A p \in DOMAIN page_rotations :
                  p \notin selected_pages => page_rotations[p] = o_before.rotations[p]
    /\ o_op \in MoveOps \cup {"press", "ctrl_press", "motion", "release"} =>
           page_rotations = o_before.rotations
    /\ (o_op = "export" /\ o_out.written) =>
           /\ Len(o_out.pages) = Len(page_items)
           /\ \A k \in 1..Len(page_items) :
                  /\ o_out.pages[k].page = page_items[k]
                  /\ o_out.pages[k].angle = page_rotations[page_items[k]]

\* a two-page document exported as [1,0] with page 1 turned by 90
C23_Witness ==
    /\ o_op = "export"
    /\ page_items = <<1, 0>>
    /\ page_rotations = (0 :> 0) @@ (1 :> 90)
    /\ o_out = File(<<[page |-> 1, angle |-> 90], [page |-> 0, angle |-> 0]>>)

\* the page list split_pdf computes for a mode
pages_to_keep(mode) ==
    IF mode = "keep" THEN keep_pages(s_targets)
    ELSE delete_pages(s_targets, s_doc.total_pages)

\* C24: for every document and every non-empty list of valid targets T, the
\* pages Delete keeps and the pages Keep keeps are disjoint, their union is
\* the set of all pages, and their counts add up to totalPages; the call
\* made writes the list of its mode, or fails with NothingRemains when that
\* list is empty.
C24_KeepDeletePartition ==
    (s_pc = "done" /\ s_mode \in {"keep", "delete"} /\ SplittableDoc
       /\ ValidTargets) =>
        LET kept == pages_to_keep("keep")
            left == pages_to_keep("delete")
        IN  /\ Range(kept) \cap Range(left) = {}
            /\ Range(kept) \cup Range(left) = 0..(s_doc.total_pages - 1)
            /\ Len(kept) + Len(left) = s_doc.total_pages
            /\ IF pages_to_keep(s_mode) = <<>>
               THEN s_result.status = "NothingRemains"
               ELSE /\ s_out = File(pages_to_keep(s_mode))
                    /\ s_result.kept_pages = Len(pages_to_keep(s_mode))
                    /\ s_result.total_pages = Len(kept) + Len(left)

\* pages 0 and 2 of a 3-page document deleted: page 1 is written, and Keep
\* of the same targets keeps 0 and 2
C24_Witness ==
    /\ s_pc = "done" /\ s_mode = "delete" /\ SplittableDoc
    /\ s_doc.total_pages = 3
    /\ s_targets = <<2, 0>>
    /\ s_out = File(<<1>>)
    /\ pages_to_keep("keep") = <<0, 2>>

\* C25: for a readable source and one of the two modes, split fails with
\* Encrypted if the source is encrypted, otherwise with Empty if it has no
\* pages, otherwise with NoTargets if the target list is empty, otherwise,
\* the targets being valid, with NothingRemains exactly when the computed
\* page list is empty, which is Delete with targets covering every page;
\* on every failure out_path is left as it was.
C25_FailureOrder ==
    [][ (s_pc' = "done" /\ s_doc.readable /\ s_mode \in {"keep", "delete"}) =>
          LET status == s_result'.status
          IN  /\ s_doc.is_encrypted => status = "Encrypted"
              /\ (~s_doc.is_encrypted /\ s_doc.total_pages = 0) =>
                     status = "Empty"
              /\ (~s_doc.is_encrypted /\ s_doc.total_pages > 0
                    /\ s_targets = <<>>) => status = "NoTargets"
              /\ (~s_doc.is_encrypted /\ s_doc.total_pages > 0
                    /\ ValidTargets) =>
                     /\ status \in {"ok", "NothingRemains"}
                     /\ status = "NothingRemains" <=> pages_to_keep(s_mode) = <<>>
                     /\ status = "NothingRemains" <=>
                            /\ s_mode = "delete"
                            /\ Range(s_targets) = 0..(s_doc.total_pages - 1)
              /\ status # "ok" => s_out' = s_out ]_vars

\* both pages of a 2-page document deleted: NothingRemains, and the file
\* that was at out_path is still there
C25_Witness ==
    /\ s_pc = "done" /\ s_mode = "delete" /\ SplittableDoc
    /\ s_doc.total_pages = 2
    /\ s_targets = <<1, 0>>
    /\ s_result.status = "NothingRemains"
    /\ s_out = Previous

(***************************************************************************)
(* SpecBatch: the execute button of the password, compress and merge tabs, *)
(* the worker thread each starts, the callbacks the workers post with      *)
(* app.after and the interactive thread running them, and files dropped    *)
(* on the password tab.  A message is [kind, num, den]: a progress value   *)
(* num/den, or the final callback of a batch (finish or error).            *)
(***************************************************************************)
Msg(kind, num, den) == [kind |-> kind, num |-> num, den |-> den]
Final(kind) == Msg(kind, 0, 1)
\* mutant: _on_error leaves the buttons as they are
FinalKinds_finish_only == {"finish"}

\* the callbacks that end a batch: both call app.set_actions_state(True)
FinalKinds == {"finish", "error"}

\* a worker thread: where it stands, the tasks it was given and those done
Task(pc, total, i) == [pc |-> pc, total |-> total, i |-> i]

\* mutant: the callback posted last runs first
after_runs_first(queue, callback) == <<callback>> \o queue

\* app.after(0, callback): callbacks posted with the same delay run in the
\* order they were posted in
after(queue, callback) == Append(queue, callback)

Without(tasks, w) == SubSeq(tasks, 1, w - 1) \o SubSeq(tasks, w + 1, Len(tasks))

BatchDocs == {PlainDoc(1), Unreadable}

InitBatch ==
    /\ b_tab \in {"password", "compress", "merge"}
    /\ IF b_tab = "password"
       THEN /\ pw_files \in SeqsUpTo(BatchDocs, MaxBatchFiles - 1)
            /\ b_n = 0
       ELSE /\ pw_files = <<>>
            /\ b_n \in 0..MaxBatchFiles
    /\ pw_op = "set" /\ pw_mode = "view" /\ pw_entry = <<"b">>
    /\ pw_fc = FALSE /\ pw_fp = FALSE
    /\ pw_pc = "ready"
    /\ pw_args = NoArgs /\ pw_i = 0 /\ pw_outs = <<>> /\ pw_failed = <<>>
    /\ pw_success = 0 /\ pw_progress = <<>> /\ pw_warning = None
    /\ b_enabled = TRUE /\ b_tasks = <<>> /\ b_queue = <<>> /\ b_seen = <<>>
    /\ b_started = 0 /\ b_direct = {}
    /\ IdleView /\ IdleParse /\ IdleSplit /\ IdleMerge /\ IdleCompress
    /\ IdleOrder /\ IdleReorder
    /\ IdleDest

UnchangedByBatch ==
    UNCHANGED <<viewVars, parseVars, splitVars, mergeVars, compVars, orderVars,
                reorderVars, destVars, b_tab, b_n, pw_op, pw_mode, pw_entry, pw_fc, pw_fp>>
PwWorkerVars ==
    <<pw_pc, pw_args, pw_i, pw_outs, pw_failed, pw_success, pw_progress,
      pw_warning>>

\* the execute button of the password tab: execute_password, _execute_set
BatchExecute ==
    LET r == execute_password(pw_files, pw_op, pw_mode, pw_entry, pw_fc, pw_fp)
    IN  /\ b_tab = "password" /\ b_enabled
        /\ Len(b_tasks) < MaxWorkers
        /\ pw_warning' = r.warning
        /\ IF r.warning = None
           THEN /\ pw_args' = r.args
                /\ pw_pc' = "running"
                /\ pw_i' = 0 /\ pw_outs' = <<>> /\ pw_failed' = <<>>
                /\ pw_success' = 0 /\ pw_progress' = <<>>
                /\ b_seen' = <<>>
                /\ b_enabled' = FALSE
                /\ b_tasks' = Append(b_tasks, Task("password", Len(pw_files), 0))
                /\ b_started' = Len(pw_files)
           ELSE /\ pw_pc' = "rejected"
                /\ UNCHANGED <<pw_args, pw_i, pw_outs, pw_failed, pw_success,
                               pw_progress, b_seen, b_enabled, b_tasks,
                               b_started>>
        /\ UNCHANGED <<b_direct, pw_files, b_queue>>
        /\ UnchangedByBatch

\* one pass of the loop of the password worker over app.password_files; the
\* worker calls app.confirm_overwrite, which answers by itself for a path
\* that is free and otherwise (asked) reads overwrite_all or opens a dialog
BatchWorkerFile(confirm, can_open, asked) ==
    LET i == pw_i + 1
        r == engine(pw_op, pw_files[i], pw_args, can_open)
    IN  /\ pw_pc = "running"
        /\ ~confirm => asked
        /\ pw_i < Len(pw_files)
        /\ pw_i' = i
        /\ IF ~confirm
           THEN /\ pw_failed' = Append(pw_failed, [file |-> i, why |-> "skip"])
                /\ pw_outs' = Append(pw_outs, NoOut)
                /\ UNCHANGED <<pw_success, pw_progress, b_queue>>
           ELSE IF r.ok
           THEN /\ pw_outs' = Append(pw_outs, r.out)
                /\ pw_success' = pw_success + 1
                /\ pw_progress' =
                       Append(pw_progress, percent(i, Len(pw_files)))
                /\ b_queue' = after(b_queue,
                       Msg("progress", percent(i, Len(pw_files)), 1))
                /\ UNCHANGED pw_failed
           ELSE /\ pw_failed' = Append(pw_failed, [file |-> i, why |-> r.err])
                /\ pw_outs' = Append(pw_outs, NoOut)
                /\ UNCHANGED <<pw_success, pw_progress, b_queue>>
        /\ b_direct' = b_direct \cup (IF asked THEN {"confirm_overwrite"} ELSE {})
        /\ UNCHANGED <<pw_files, pw_pc, pw_args, pw_warning, b_enabled, b_tasks,
                       b_seen, b_started>>
        /\ UnchangedByBatch

\* the loop is exhausted: the worker posts _finish and returns
BatchWorkerFinish ==
    /\ pw_pc = "running"
    /\ pw_i = Len(pw_files)
    /\ pw_pc' = IF pw_success > 0 THEN "completed" ELSE "failed"
    /\ b_queue' = after(b_queue, Final("finish"))
    /\ b_tasks' = SelectSeq(b_tasks, LAMBDA t : t.pc # "password")
    /\ UNCHANGED <<b_direct, pw_files, pw_args, pw_i, pw_outs, pw_failed, pw_success,
                   pw_progress, pw_warning, b_enabled, b_seen, b_started>>
    /\ UnchangedByBatch

\* on_drop_password: _add_files appends the dropped path
BatchDrop(dropped) ==
    /\ b_tab = "password"
    /\ Len(pw_files) < MaxBatchFiles
    /\ pw_files' = Append(pw_files, dropped)
    /\ UNCHANGED <<b_direct, PwWorkerVars, b_enabled, b_tasks, b_queue, b_seen, b_started>>
    /\ UnchangedByBatch

\* run_compress: accepted of the b_n files pass app.confirm_overwrite, the
\* others go to report_skip; gs_found is find_gs() finding Ghostscript
CompressExecute(accepted, gs_found) ==
    /\ b_tab = "compress" /\ b_enabled
    /\ Len(b_tasks) < MaxWorkers
    /\ accepted <= b_n
    /\ IF b_n = 0 \/ ~gs_found \/ accepted = 0
       THEN UNCHANGED <<b_seen, b_enabled, b_tasks, b_started>>
       ELSE /\ b_seen' = <<>>
            /\ b_enabled' = FALSE
            /\ b_tasks' = Append(b_tasks, Task("compress", accepted, 0))
            /\ b_started' = b_n
    /\ UNCHANGED <<b_direct, pw_files, PwWorkerVars, b_queue>>
    /\ UnchangedByBatch

\* one pass of the loop of compress_pdfs in the worker of run_compress:
\* progress_cb posts the values, and when compress_pdf_auto raises (ran is
\* FALSE) the exception leaves compress_pdfs and the worker posts _on_error
CompressWorkerFile(w, ran) ==
    /\ w \in 1..Len(b_tasks)
    /\ b_tasks[w].pc = "compress"
    /\ b_tasks[w].i < b_tasks[w].total
    /\ LET t == b_tasks[w]
           begun == after(b_queue, Msg("progress", t.i * 100, t.total))
       IN  IF ran
           THEN /\ b_queue' =
                       after(begun, Msg("progress", (t.i + 1) * 100, t.total))
                /\ b_tasks' =
                       [b_tasks EXCEPT ![w] = Task("compress", t.total, t.i + 1)]
           ELSE /\ b_queue' =
                       after(after(begun, Msg("progress", t.i * 100, t.total)),
                             Final("error"))
                /\ b_tasks' = Without(b_tasks, w)
    /\ UNCHANGED <<b_direct, pw_files, PwWorkerVars, b_enabled, b_seen, b_started>>
    /\ UnchangedByBatch

\* compress_pdfs returned: the worker posts _on_success and returns
CompressWorkerDone(w) ==
    /\ w \in 1..Len(b_tasks)
    /\ b_tasks[w].pc = "compress"
    /\ b_tasks[w].i = b_tasks[w].total
    /\ b_queue' = after(b_queue, Final("finish"))
    /\ b_tasks' = Without(b_tasks, w)
    /\ UNCHANGED <<b_direct, pw_files, PwWorkerVars, b_enabled, b_seen, b_started>>
    /\ UnchangedByBatch

\* execute_merge: the handler starts the thread and returns
MergeExecute(confirm) ==
    /\ b_tab = "merge" /\ b_enabled
    /\ Len(b_tasks) < MaxWorkers
    /\ IF b_n < 2 \/ ~confirm
       THEN UNCHANGED <<b_tasks, b_started>>
       ELSE /\ b_tasks' = Append(b_tasks, Task("merge_start", b_n, 0))
            /\ b_started' = b_n
    /\ UNCHANGED <<b_direct, pw_files, PwWorkerVars, b_enabled, b_queue, b_seen>>
    /\ UnchangedByBatch

\* task: app.progress_reset(), app.set_actions_state(False)
MergeTaskDisable(w) ==
    /\ w \in 1..Len(b_tasks)
    /\ b_tasks[w].pc = "merge_start"
    /\ b_seen' = <<>>
    /\ b_enabled' = FALSE
    /\ b_tasks' = [b_tasks EXCEPT ![w] = Task("merge_run", @.total, 0)]
    /\ b_direct' = b_direct \cup {"progress_reset", "set_actions_state", "status.set"}
    /\ UNCHANGED <<pw_files, PwWorkerVars, b_queue, b_started>>
    /\ UnchangedByBatch

\* task: merge_pdfs sets the progress after each source and raises at source
\* failed_at, or with failed_at = 0 returns, and task calls progress_done
MergeTaskRun(w, failed_at) ==
    /\ w \in 1..Len(b_tasks)
    /\ b_tasks[w].pc = "merge_run"
    /\ failed_at <= b_tasks[w].total
    /\ LET total == b_tasks[w].total
           done  == IF failed_at = 0 THEN total ELSE failed_at - 1
       IN  /\ b_seen' = b_seen
                   \o [i \in 1..done |-> Msg("progress", i * 100, total)]
                   \o (IF failed_at = 0 THEN <<Msg("progress", 100, 1)>>
                       ELSE <<>>)
           /\ b_tasks' = [b_tasks EXCEPT ![w] = Task("merge_finally", total, done)]
    /\ b_direct' = b_direct \cup ({"status.set", "messagebox"}
        \cup (IF failed_at # 1 THEN {"progress_set"} ELSE {})
        \cup (IF failed_at = 0 THEN {"progress_done"} ELSE {}))
    /\ UNCHANGED <<pw_files, PwWorkerVars, b_enabled, b_queue, b_started>>
    /\ UnchangedByBatch

\* task, finally: app.set_actions_state(True), and the thread returns
MergeTaskFinally(w) ==
    /\ w \in 1..Len(b_tasks)
    /\ b_tasks[w].pc = "merge_finally"
    /\ b_enabled' = TRUE
    /\ b_tasks' = Without(b_tasks, w)
    /\ b_direct' = b_direct \cup {"set_actions_state"}
    /\ UNCHANGED <<pw_files, PwWorkerVars, b_queue, b_seen, b_started>>
    /\ UnchangedByBatch

\* the interactive thread runs the callback at the head of the queue: a
\* progress value is set, a final callback enables the buttons again
UiRun ==
    /\ b_queue # <<>>
    /\ b_queue' = Tail(b_queue)
    /\ b_seen' = Append(b_seen, Head(b_queue))
    /\ b_enabled' = IF Head(b_queue).kind \in FinalKinds THEN TRUE ELSE b_enabled
    /\ UNCHANGED <<b_direct, pw_files, PwWorkerVars, b_tasks, b_started>>
    /\ UnchangedByBatch

NextBatch ==
    \/ BatchExecute
    \/ \E confirm \in BOOLEAN, can_open \in BOOLEAN, asked \in BOOLEAN :
           BatchWorkerFile(confirm, can_open, asked)
    \/ BatchWorkerFinish
    \/ \E dropped \in BatchDocs : BatchDrop(dropped)
    \/ \E accepted \in 0..MaxBatchFiles, gs_found \in BOOLEAN :
           CompressExecute(accepted, gs_found)
    \/ \E w \in 1..MaxWorkers, ran \in BOOLEAN : CompressWorkerFile(w, ran)
    \/ \E w \in 1..MaxWorkers : CompressWorkerDone(w)
    \/ \E confirm \in BOOLEAN : MergeExecute(confirm)
    \/ \E w \in 1..MaxWorkers : MergeTaskDisable(w)
    \/ \E w \in 1..MaxWorkers, failed_at \in 0..MaxBatchFiles :
           MergeTaskRun(w, failed_at)
    \/ \E w \in 1..MaxWorkers : MergeTaskFinally(w)
    \/ UiRun

SpecBatch == InitBatch /\ [][NextBatch]_vars

\* the sources compress_pdfs entered compress_pdf_auto for
Attempted == {k \in 1..Len(c_progress) : c_progress[k].what = "start"}

\* C26: in a compress batch, when the engine raises for one task
\* (Ghostscript missing or exiting non-zero, or the source gone), that task
\* alone is failed and every later task of the input list is still
\* attempted: when compress_pdfs is done, it has entered every source.
C26_Original ==
    (c_pc = "done" /\ c_error.kind \in {"FileNotFound", "PDFCompressError"}) =>
        Cardinality(Attempted) = c_n

\* the progress values among messages
ProgressOf(msgs) == SelectSeq(msgs, LAMBDA m : m.kind = "progress")
\* a/b <= c/d for the values of two progress messages
AtMost(m1, m2) == m1.num * m2.den <= m2.num * m1.den
NonDecreasing(msgs) ==
    \A j, k \in 1..Len(msgs) : j < k => AtMost(msgs[j], msgs[k])

\* C27: in a password or compress batch the tasks are taken in the order of
\* the input list, and the progress values the interactive thread has set
\* for the batch are non-decreasing, also when a task fails or is skipped.
C27_Original ==
    b_tab \in {"password", "compress"} =>
        /\ NonDecreasing(ProgressOf(b_seen))
        /\ \A k \in 1..Len(pw_failed) : pw_failed[k].file <= pw_i
        /\ \A j, k \in 1..Len(pw_failed) :
               j < k => pw_failed[j].file < pw_failed[k].file

\* C28: the final callback of a batch (finish or error) is posted after all
\* its progress messages, and the interactive thread sets no progress value
\* of the batch after it has run the final callback.
C28_FinalIsLast ==
    LET posted == b_seen \o b_queue
    IN  \A j, k \in 1..Len(posted) :
            (j < k /\ posted[j].kind \in FinalKinds) =>
                posted[k].kind \notin {"progress"}

\* a password batch of two files: 50, 100 and then _finish have run
C28_Witness ==
    /\ b_tab = "password"
    /\ Len(pw_files) = 2
    /\ b_seen = <<Msg("progress", 50, 1), Msg("progress", 100, 1),
                  Final("finish")>>
    /\ b_queue = <<>>

\* the files of a password batch that failed, and those that were skipped
Skipped == {k \in 1..Len(pw_failed) : pw_failed[k].why = "skip"}
Failed == {k \in 1..Len(pw_failed) : pw_failed[k].why # "skip"}

\* C29: when a password batch has completed, succeeded + failed + skipped
\* is the number of files the batch was started with, and every file whose
\* overwrite confirmation was declined is counted as skipped and was not
\* passed to the engine (nothing was written for it).
C29_Original ==
    (b_tab = "password" /\ pw_pc \in {"completed", "failed"}) =>
        /\ pw_success + Cardinality(Failed) + Cardinality(Skipped) = b_started
        /\ \A k \in Skipped : pw_outs[pw_failed[k].file] = NoOut

\* the final callback of a batch has been posted and has not run yet
FinalPending == \E k \in 1..Len(b_queue) : b_queue[k].kind \in FinalKinds

\* C30: at most one worker thread of a tab is alive at any time, and from
\* the start of a worker until its final callback has run the buttons are
\* disabled.
C30_Original ==
    /\ Len(b_tasks) <= 1
    /\ (b_tasks # <<>> \/ FinalPending) => ~b_enabled

\* C39: whenever a drag is in progress, the selection is non-empty and
\* contains the pressed page, which is among the items shown; so _on_motion
\* finds selected positions and never takes its branch for no selection.
C39_DragHasSelection ==
    dragging # NoDrag =>
        /\ selected_pages # {}
        /\ dragging[1] \in selected_pages
        /\ dragging[1] \in Range(page_items)
        /\ selected_indices(page_items, selected_pages) # {}

\* page 1 of a 3-page document pressed while pages 0 and 1 were selected
C39_Witness ==
    /\ doc = <<3>>
    /\ dragging # NoDrag /\ dragging[1] = 1
    /\ selected_pages = {0, 1}
    /\ page_items = <<0, 1, 2>>

\* C40: after every drag step that changes the order, the page in the last
\* display position is not selected; and a page that is last and not
\* selected is still last after any drag step.
C40_LastStaysLast ==
    DragStep =>
        /\ page_items # o_before.items =>
               page_items[Len(page_items)] \notin selected_pages
        /\ (o_before.items # <<>>
              /\ o_before.items[Len(o_before.items)] \notin o_before.selected) =>
               page_items[Len(page_items)] = o_before.items[Len(o_before.items)]

\* page 0 of [0,1,2,3] dragged onto the last position 3: it lands before
\* page 3, which stays last
C40_Witness ==
    /\ o_op = "motion" /\ o_target = 3
    /\ o_before.items = <<0, 1, 2, 3>>
    /\ o_before.selected = {0}
    /\ page_items = <<1, 2, 0, 3>>

(***************************************************************************)
(* SpecReorder: one call of reorder_pdf with any order list, also one that *)
(* repeats, leaves out or misnames pages, over a file that may exist.      *)
(***************************************************************************)
MaxReorderPages == 2   \* pages of the source
MaxOrderLen == 3       \* entries of order

\* a file that was at out_path before the call
PreviousOutput == File(<<[page |-> MaxReorderPages, angle |-> 0]>>)

InitReorder ==
    /\ r_doc \in [readable : BOOLEAN, is_encrypted : BOOLEAN,
                  total_pages : 0..MaxReorderPages]
    /\ r_order \in SeqsUpTo((-1)..MaxReorderPages, MaxOrderLen)
    /\ r_rotations \in {<<>>, [i \in {0} |-> 90]}
    /\ r_out \in {NoFile, PreviousOutput}
    /\ r_pc = "ready" /\ r_status = None
    /\ IdleView /\ IdleParse /\ IdleSplit /\ IdleMerge /\ IdleCompress
    /\ IdleProtect /\ IdleOrder /\ IdleBatch /\ IdleDest

\* reorder_pdf(pdf_path, out_path, order, rotations)
ReorderCall ==
    /\ r_pc = "ready"
    /\ LET r == reorder_pdf(r_doc, r_order, r_rotations) IN
          /\ r_status' = r[1]
          /\ r_out' = IF r[1] = "ok" THEN r[2] ELSE r_out
    /\ r_pc' = "done"
    /\ UNCHANGED <<r_doc, r_order, r_rotations>>
    /\ UNCHANGED <<viewVars, parseVars, splitVars, mergeVars, compVars,
                   protectVars, orderVars, batchVars, destVars>>

NextReorder == ReorderCall

SpecReorder == InitReorder /\ [][NextReorder]_vars

\* the four cases in which reorder_pdf refuses a readable source
Refused(document, order) ==
    \/ document.is_encrypted
    \/ document.total_pages = 0
    \/ order = <<>>
    \/ \E k \in 1..Len(order) : order[k] \notin 0..(document.total_pages - 1)

\* C38: on an encrypted source, a source without pages, an empty order or an
\* index outside 0..pageCount-1 reorder_pdf fails and leaves the file at the
\* output path as it was; otherwise the output has len(order) pages and its
\* k-th page is source page order[k].
C38_ReorderChecksThenWrites ==
    [][(r_pc' = "done" /\ r_doc.readable) =>
          IF Refused(r_doc, r_order)
          THEN r_status' # "ok" /\ r_out' = r_out
          ELSE /\ r_status' = "ok"
               /\ r_out'.written
               /\ Len(r_out'.pages) = Len(r_order)
               /\ \A k \in 1..Len(r_order) : r_out'.pages[k].page = r_order[k]]_vars
C38_Witness ==
    /\ r_pc = "done" /\ r_status = "ok" /\ r_order = <<1, 1, 0>>
    /\ r_doc.total_pages = 2 /\ Len(r_out.pages) = 3

\* C36: with a target size and any ladder of output sizes: when some rung
\* gives an output <= target the size returned is <= target; when the size
\* returned exceeds the target every rung was tried, in order, and the file
\* at the output path is the last rung's, whatever the other rungs gave.
C36_TargetMetOrExhausted ==
    (c_target # NoTarget /\ FileCompressed) =>
        LET returned == c_results[c_i].new IN
            /\ (\E r \in 0..(NumPresets - 1) : c_gs[r] <= c_target[1]) =>
                   returned <= c_target[1]
            /\ returned > c_target[1] =>
                   /\ c_calls = [j \in 1..NumPresets |-> j - 1]
                   /\ c_out = <<[rung |-> NumPresets - 1, size |-> returned]>>
                   /\ returned = c_gs[NumPresets - 1]

\* no rung meets the target: the whole ladder is walked
C36_Witness ==
    /\ FileCompressed /\ c_target = <<TargetSize>>
    /\ \A r \in 0..(NumPresets - 1) : c_gs[r] = TargetSize + 1
    /\ Len(c_calls) = NumPresets
    /\ c_results[c_i].new = TargetSize + 1

\* C37: when an attempt of a target search fails at rung k the batch ends
\* with the error of that file and no result for it, rung k is the last one
\* tried, and the output path holds what rung k-1 wrote when k > 0 and is
\* untouched when k = 0.
C37_FailedRung ==
    (c_target # NoTarget /\ c_error.kind = "PDFCompressError") =>
        LET k == c_calls[Len(c_calls)] IN
            /\ c_pc = "done"
            /\ c_error.name = c_i + 1
            /\ Len(c_results) = c_i
            /\ c_calls = [j \in 1..(k + 1) |-> j - 1]
            /\ c_out = IF k > 0 THEN <<[rung |-> k - 1, size |-> c_gs[k - 1]]>>
                       ELSE <<>>

\* rungs 0 and 1 ran and were too big, rung 2 failed
C37_Witness ==
    /\ c_target = <<TargetSize>> /\ c_error.kind = "PDFCompressError"
    /\ c_calls = <<0, 1, 2>>
    /\ c_out = <<[rung |-> 1, size |-> TargetSize + 1]>>

\* C31: a worker thread never reads or changes UI state itself; all it does
\* to the progress bar, the status text, the buttons and dialogs goes through
\* app.after and runs on the interactive thread.
C31_Original == b_direct = {}

\* C32: every overwrite confirmation of a batch is decided by the handler on
\* the interactive thread before the worker starts; a running worker asks
\* for none.
C32_Original == "confirm_overwrite" \notin b_direct

(***************************************************************************)
(* SpecBatchFair: SpecBatch with every worker thread and the event loop    *)
(* scheduled again and again (engine calls return or raise, so each step   *)
(* of a worker ends); the user may or may not press buttons or drop files. *)
(***************************************************************************)
SpecBatchFair ==
    /\ SpecBatch
    /\ WF_vars(\E confirm \in BOOLEAN, can_open \in BOOLEAN, asked \in BOOLEAN :
                   BatchWorkerFile(confirm, can_open, asked))
    /\ WF_vars(BatchWorkerFinish)
    /\ WF_vars(\E w \in 1..MaxWorkers, ran \in BOOLEAN : CompressWorkerFile(w, ran))
    /\ WF_vars(\E w \in 1..MaxWorkers : CompressWorkerDone(w))
    /\ WF_vars(\E w \in 1..MaxWorkers : MergeTaskDisable(w))
    /\ WF_vars(\E w \in 1..MaxWorkers, failed_at \in 0..MaxBatchFiles :
                   MergeTaskRun(w, failed_at))
    /\ WF_vars(\E w \in 1..MaxWorkers : MergeTaskFinally(w))
    /\ WF_vars(UiRun)

C34_Original ==
    b_tab = "password" =>
        /\ pw_i <= b_started
        /\ pw_pc \in {"completed", "failed"} => pw_i = b_started
        /\ \A k \in 1..Len(pw_progress) :
               \E j \in 1..b_started : pw_progress[k] = percent(j, b_started)

(***************************************************************************)
(* SpecDest: the out_path each task of a password or compress batch gets.  *)
(* A file name is a sequence of tokens, "{name}" being the placeholder; a  *)
(* path is a folder and a name.                                            *)
(***************************************************************************)
MaxDestFiles == 2   \* files in the list

Folders == {"a", "b"}
Stems == {"s", "t"}
SourceFile(parent, stem) == [parent |-> parent, stem |-> stem]
Path(parent, name) == [parent |-> parent, name |-> name]
Patterns == {<<>>, <<"{name}", "_x">>, <<"out">>, <<"out", ".pdf">>}

\* pattern.replace("{name}", stem)
replace(pattern, stem) ==
    [k \in 1..Len(pattern) |-> IF pattern[k] = "{name}" THEN stem ELSE pattern[k]]

\* if not name.lower().endswith(".pdf"): name += ".pdf"
with_pdf(name) ==
    IF name # <<>> /\ name[Len(name)] = ".pdf" THEN name ELSE Append(name, ".pdf")

\* _build_out_path of the password tab
build_out_path(src_file, pattern, out_dir) ==
    LET name == with_pdf(IF "{name}" \in Range(pattern)
                         THEN replace(pattern, src_file.stem) ELSE pattern)
    IN  Path(IF out_dir # None THEN out_dir ELSE src_file.parent, name)

\* _execute_set: an empty pattern stands for "{name}_ロック済み.pdf"
password_pattern(pattern) ==
    IF pattern = <<>> THEN <<"{name}", "_locked", ".pdf">> ELSE pattern

\* f"{src.stem}_圧縮済み.pdf"
get_compress_default_name(src) == <<src.stem, "_compressed", ".pdf">>

\* run_compress: out_name and out_path of one source
compress_out_path(src, pattern, out_dir) ==
    LET out_name == IF pattern = <<>> THEN get_compress_default_name(src)
                    ELSE with_pdf(IF "{name}" \in Range(pattern)
                                  THEN replace(pattern, src.stem) ELSE pattern)
    IN  Path(IF out_dir # None THEN out_dir ELSE src.parent, out_name)

\* app.confirm_overwrite: a free path is accepted, for an existing one the
\* answer is overwrite_all or what the user says
confirm_overwrite(path, exists, answer) == path \notin exists \/ answer

\* the file lists hold no path twice (_add_files skips known paths)
FileLists ==
    {f \in SeqsUpTo({SourceFile(p, n) : p \in Folders, n \in Stems}, MaxDestFiles) :
        f # <<>> /\ \A j, k \in 1..Len(f) : j # k => f[j] # f[k]}

InitDest ==
    /\ d_tab \in {"password", "compress"}
    /\ d_files \in FileLists
    /\ d_pattern \in Patterns
    /\ d_out_dir \in {None, "a"}
    /\ d_exists \in {{}, {Path("a", <<"out", ".pdf">>)}}
    /\ d_pc = "ready" /\ d_i = 0 /\ d_out_paths = <<>>
    /\ IdleView /\ IdleParse /\ IdleSplit /\ IdleMerge /\ IdleCompress
    /\ IdleProtect /\ IdleOrder /\ IdleBatch /\ IdleReorder

UnchangedByDest ==
    UNCHANGED <<viewVars, parseVars, splitVars, mergeVars, compVars, protectVars,
                orderVars, batchVars, reorderVars, d_tab, d_files, d_pattern,
                d_out_dir>>

\* _execute_set: the handler starts the worker
DestPasswordExecute ==
    /\ d_tab = "password" /\ d_pc = "ready"
    /\ d_pc' = "running"
    /\ UNCHANGED <<d_exists, d_i, d_out_paths>>
    /\ UnchangedByDest

\* one pass of the worker's loop: out_path, confirm_overwrite, the engine
\* writes out_path
DestPasswordFile(answer) ==
    /\ d_tab = "password" /\ d_pc = "running"
    /\ d_i < Len(d_files)
    /\ LET out_path == build_out_path(d_files[d_i + 1],
                                      password_pattern(d_pattern), d_out_dir)
       IN  IF confirm_overwrite(out_path, d_exists, answer)
           THEN /\ d_out_paths' = Append(d_out_paths, out_path)
                /\ d_exists' = d_exists \cup {out_path}
           ELSE UNCHANGED <<d_out_paths, d_exists>>
    /\ d_i' = d_i + 1
    /\ d_pc' = IF d_i + 1 = Len(d_files) THEN "done" ELSE "running"
    /\ UnchangedByDest

\* run_compress: the handler's loop builds out_paths of the sources that
\* pass confirm_overwrite (answers[k] for file k), and starts the worker
DestCompressExecute(answers) ==
    /\ d_tab = "compress" /\ d_pc = "ready"
    /\ LET out(k) == compress_out_path(d_files[k], d_pattern, d_out_dir)
           kept == SelectSeq([k \in 1..Len(d_files) |-> k],
                       LAMBDA k : confirm_overwrite(out(k), d_exists, answers[k]))
       IN  /\ d_out_paths' = [j \in 1..Len(kept) |-> out(kept[j])]
           /\ d_pc' = IF kept = <<>> THEN "done" ELSE "running"
    /\ UNCHANGED <<d_exists, d_i>>
    /\ UnchangedByDest

\* compress_pdfs writes the out_path of its next source
DestCompressFile ==
    /\ d_tab = "compress" /\ d_pc = "running"
    /\ d_i < Len(d_out_paths)
    /\ d_exists' = d_exists \cup {d_out_paths[d_i + 1]}
    /\ d_i' = d_i + 1
    /\ d_pc' = IF d_i + 1 = Len(d_out_paths) THEN "done" ELSE "running"
    /\ UNCHANGED d_out_paths
    /\ UnchangedByDest

NextDest ==
    \/ DestPasswordExecute
    \/ \E answer \in BOOLEAN : DestPasswordFile(answer)
    \/ \E answers \in [1..MaxDestFiles -> BOOLEAN] : DestCompressExecute(answers)
    \/ DestCompressFile

SpecDest == InitDest /\ [][NextDest]_vars

\* C35: the tasks of one batch have pairwise different destination paths,
\* whatever the name pattern and the sources' stems and folders are.
C35_Original ==
    \A j, k \in 1..Len(d_out_paths) : j # k => d_out_paths[j] # d_out_paths[k]

====
